---- MODULE Spec2Model ----
(***************************************************************************)
(* Model of the graph workflow engine: GraphEngine.execute and its helpers *)
(* (app/core/engine.py), the Graph model (app/models/graph.py), the state  *)
(* container WorkflowState (app/models/state.py) and the ToolRegistry      *)
(* (app/core/tools.py).                                                    *)
(*                                                                         *)
(* Python objects that are shared by reference (the data and metadata      *)
(* dictionaries of a WorkflowState) live in a heap, so that aliasing       *)
(* between the live state and the log snapshots is visible.                *)
(***************************************************************************)
EXTENDS Integers, Sequences, FiniteSets, TLC

VARIABLES graph, tools, pc, state, heap, current_node_name, execution_log,
          step_counter, invoked, exc,
          \* the calls of execute made on the engine so far: their number,
          \* their initial mapping and the outcome of the first of them
          runs, input, first,
          \* the engines of the runs that share the graph and the registry
          engines,
          \* the register calls made on a registry and the last lookup
          regs, got,
          \* the InMemoryStorage instance, the graph_id of the Graph objects
          \* handed to it, the threads calling it, the saves completed and the
          \* number of uuid4 identifiers drawn
          _graphs, _runs, _lock, objects, threads, saved, uuid,
          \* the last response of the HTTP routes
          response

storage == <<_graphs, _runs, _lock, objects, threads, saved, uuid>>

\* Variables of the other components, which execute does not touch.
elsewhere == <<engines, regs, got, storage, response>>

vars == <<graph, tools, pc, state, heap, current_node_name, execution_log,
          step_counter, invoked, exc, runs, input, first, elsewhere>>

\* ------------------------------------------------------------------ bounds
\* Logging steps are disabled once the step counter reached StepCap; the
\* engine's own guard keeps the counter below it (see CapNeverBinds).
StepCap == 103
\* Operand of the short conditional edges.
CondVal == 2
\* Longest linear graph.
MaxChain == 3
\* Calls of execute on one engine instance.
MaxRuns == 2
\* Runs that execute interleaved on the same graph and registry.
NumRuns == 2
\* Register calls made on one registry.
MaxRegs == 3
NumThreads == 2
MaxCalls == 2
NumObjects == 2
\* Function definitions in a reviewed source text.
MaxFunctions == 2

\* ------------------------------------------------------- program constants
max_iterations == 100

\* ------------------------------------------------------------------ values
\* Python values are tagged: the tag decides which comparisons are defined.
Num(n) == [t |-> "num", v |-> n]
Str(i) == [t |-> "str", v |-> i]
None == [t |-> "none", v |-> 0]
\* A key that is not in a dictionary.
Absent == [t |-> "absent", v |-> 0]

Keys == {"a", "b", "c", "n", "m"}
EmptyDict == [k \in Keys |-> Absent]

\* Variant: the mapping is merged into the metadata as well.
StateUpdateBoth(st, hp, updates) ==
  [hp EXCEPT ![st.data] = [k \in DOMAIN @ |->
                             IF updates[k] # Absent THEN updates[k] ELSE @[k]],
             ![st.metadata] = [k \in DOMAIN @ |->
                                 IF updates[k] # Absent THEN updates[k]
                                 ELSE @[k]]]

\* Variant: the mapping replaces the dictionary instead of being merged.
DictUpdateReplace(d, updates) == updates

\* dict.update(updates): every key of updates is inserted or overwritten.
DictUpdate(d, updates) ==
  [k \in Keys |-> IF updates[k] # Absent THEN updates[k] ELSE d[k]]

\* dict.get(key, default)
DictGet(d, key, default) == IF d[key] = Absent THEN default ELSE d[key]

\* ------------------------------------------------------------ WorkflowState
\* A WorkflowState holds references to its data and metadata dictionaries.
StateGet(st, hp, key, default) == DictGet(hp[st.data], key, default)

StateSet(st, hp, key, value) ==
  [hp EXCEPT ![st.data] = [@ EXCEPT ![key] = value]]

StateUpdate(st, hp, updates) ==
  [hp EXCEPT ![st.data] = DictUpdate(@, updates)]

\* to_dict returns a new outer mapping whose two values are the state's own
\* dictionaries (references, not copies).
to_dict(st) == [data |-> st.data, metadata |-> st.metadata]

\* The value a reader of a snapshot sees in heap hp.
Deref(snap, hp) == [data |-> hp[snap.data], metadata |-> hp[snap.metadata]]

\* ------------------------------------------------------------ ToolRegistry
\* Names of the step functions registered at startup, and a name no
\* function is registered under.
ToolNames == {"set_a", "incr", "merge_bc", "replace", "set_then_fail", "fail"}
Unregistered == "missing"

\* Step functions that each set one key of their own, and the key each sets.
Setters == <<"set_a", "set_b", "set_c", "set_m">>
SetterKeys == <<"a", "b", "c", "m">>

\* Step functions that write the state's metadata.
MetaWriters == {"tag"}

\* Every name registered at startup.
RegisteredNames ==
  ToolNames \cup {Setters[i] : i \in DOMAIN Setters} \cup MetaWriters

\* Variant: a name that is already registered keeps its first function.
register_first_wins(reg, name, func) ==
  IF name \in DOMAIN reg THEN reg
  ELSE [n \in DOMAIN reg \cup {name} |-> IF n = name THEN func ELSE reg[n]]

\* self._tools[name] = func
register(reg, name, func) ==
  [n \in DOMAIN reg \cup {name} |-> IF n = name THEN func ELSE reg[n]]

\* ToolRegistry(): no name is registered.
EmptyRegistry == [n \in {} |-> ""]

has(reg, name) == name \in DOMAIN reg

\* A call of get: ValueError when the name is not in _tools, else the
\* function stored under it.
get_call(reg, name) ==
  IF name \notin DOMAIN reg
    THEN [op |-> "get", name |-> name, raised |-> TRUE, value |-> ""]
    ELSE [op |-> "get", name |-> name, raised |-> FALSE, value |-> reg[name]]

\* Only called on registered names (guarded by has).
get(reg, name) == reg[name]

\* One invocation tool_func(state) in heap hp.  The result says whether the
\* function raised, the heap it left behind, and what it returned: the kind
\* of the return value (a WorkflowState, a plain mapping, or nothing), the
\* returned container (kind "WorkflowState") and the returned mapping (kind
\* "dict").
ToolResult(raised, hp, kind, st, d) ==
  [raised |-> raised, heap |-> hp, kind |-> kind, st |-> st, dict |-> d]

\* --------------------------------------------------- code_review workflow
\* The keys the workflow's step functions read and write.
ReviewKeys ==
  {"code", "functions", "function_count", "parse_error", "complexity_scores",
   "avg_complexity", "issues", "issue_count", "suggestions", "quality_score",
   "iteration"}

\* A Python list, a float kept in hundredths (7.0 is Float(700)), and the
\* quotient sum / len of check_complexity kept as the pair it is made of.
List(s) == [t |-> "list", v |-> s]
Float(h) == [t |-> "num", v |-> h]
Ratio(sum, len) == [t |-> "ratio", v |-> <<sum, len>>]

\* What the step functions can tell about one function definition of a
\* source text: its length in lines, its number of parameters and the number
\* of decision keywords in its lines.
FunctionDefs == [num_lines : {10, 60}, args : {2, 7}, decisions : {3, 25}]

\* Source texts: the empty string, a text ast.parse rejects, and texts with
\* up to MaxFunctions function definitions.
Sources ==
  {[kind |-> "empty", defs |-> <<>>], [kind |-> "syntax_error", defs |-> <<>>]}
  \cup {[kind |-> "parsed", defs |-> d] :
          d \in UNION {[1..n -> FunctionDefs] : n \in 0..MaxFunctions}}

\* Python truthiness of a state value ("if not code").
Truthy(x) ==
  CASE x.t = "str" -> x.v.kind # "empty"
    [] x.t = "num" -> x.v # 0
    [] x.t = "list" -> x.v # <<>>
    [] OTHER -> FALSE

\* n / d rounded to the nearest integer, for d > 0 and n >= 0.
RoundDiv(n, d) == (2 * n + d) \div (2 * d)

Min(a, b) == IF a < b THEN a ELSE b
Max(a, b) == IF a > b THEN a ELSE b

RECURSIVE SumOf(_, _)
SumOf(s, i) == IF i > Len(s) THEN 0 ELSE s[i].complexity + SumOf(s, i + 1)

\* The step functions return the container they were given.
Returned(st, hp) == ToolResult(FALSE, hp, "WorkflowState", st, EmptyDict)

\* A step function that raises before it wrote anything.
Raised(st, hp) == ToolResult(TRUE, hp, "None", st, EmptyDict)

\* state.set(k1, v1); state.set(k2, v2)
StateSet2(st, hp, k1, v1, k2, v2) ==
  StateSet(st, StateSet(st, hp, k1, v1), k2, v2)

\* code_review.py 19-54.  ast.parse raises TypeError on a value that is not
\* a source text; only SyntaxError is caught.
extract_functions(st, hp) ==
  LET code == StateGet(st, hp, "code", Str([kind |-> "empty", defs |-> <<>>]))
      none == StateSet2(st, hp, "functions", List(<<>>),
                        "function_count", Num(0))
  IN IF ~Truthy(code) THEN Returned(st, none)
     ELSE IF code.t # "str" THEN Raised(st, hp)
     ELSE IF code.v.kind = "syntax_error"
       THEN Returned(st, StateSet(st, none, "parse_error", Str(code.v)))
     ELSE LET functions ==
                [i \in DOMAIN code.v.defs |->
                   [name |-> i, args |-> code.v.defs[i].args,
                    num_lines |-> code.v.defs[i].num_lines]]
          IN Returned(st, StateSet2(st, hp, "functions", List(functions),
                                    "function_count", Num(Len(functions))))

\* code_review.py 57-98: one plus the decision keywords in the lines of each
\* function, and the average over the functions (0 when there is none).
check_complexity(st, hp) ==
  LET code == StateGet(st, hp, "code", Str([kind |-> "empty", defs |-> <<>>]))
      functions == StateGet(st, hp, "functions", List(<<>>)).v
      complexity_scores ==
        [i \in DOMAIN functions |->
           [function |-> functions[i].name,
            complexity |-> 1 + code.v.defs[functions[i].name].decisions,
            lines |-> functions[i].num_lines]]
      avg_complexity ==
        IF complexity_scores = <<>> THEN Num(0)
        ELSE Ratio(SumOf(complexity_scores, 1), Len(complexity_scores))
  IN Returned(st, StateSet2(st, hp, "complexity_scores",
                            List(complexity_scores),
                            "avg_complexity", avg_complexity))

\* The issues detect_issues appends for function i, in its order.
IssuesOfFunction(functions, complexity_scores, i) ==
  (IF functions[i].num_lines > 50
     THEN <<[type |-> "long_function", function |-> functions[i].name]>>
     ELSE <<>>)
  \o (IF i <= Len(complexity_scores) /\ complexity_scores[i].complexity > 10
        THEN <<[type |-> "high_complexity", function |-> functions[i].name]>>
        ELSE <<>>)
  \o (IF functions[i].args > 5
        THEN <<[type |-> "too_many_params", function |-> functions[i].name]>>
        ELSE <<>>)

RECURSIVE IssuesFrom(_, _, _)
IssuesFrom(functions, complexity_scores, i) ==
  IF i > Len(functions) THEN <<>>
  ELSE IssuesOfFunction(functions, complexity_scores, i)
       \o IssuesFrom(functions, complexity_scores, i + 1)

\* code_review.py 101-145
detect_issues(st, hp) ==
  LET functions == StateGet(st, hp, "functions", List(<<>>)).v
      complexity_scores == StateGet(st, hp, "complexity_scores", List(<<>>)).v
      issues == IssuesFrom(functions, complexity_scores, 1)
  IN Returned(st, StateSet2(st, hp, "issues", List(issues),
                            "issue_count", Num(Len(issues))))

\* code_review.py 148-174: one suggestion per issue of a known type.
suggest_improvements(st, hp) ==
  LET issues == StateGet(st, hp, "issues", List(<<>>)).v
      suggestions ==
        [i \in DOMAIN issues |->
           [function |-> issues[i].function, suggestion |-> issues[i].type]]
  IN Returned(st, StateSet(st, hp, "suggestions", List(suggestions)))

\* Lines 185-195 in hundredths: 10.0 less half a point per issue (at most
\* 5) and, above an average complexity of 10, 0.3 per unit (at most 3),
\* kept between 0 and 10 and rounded to two places.
QualityScore(issue_count, avg_complexity) ==
  LET issues == Min(issue_count * 50, 500)
      avg == avg_complexity.v
      complexity ==
        IF avg_complexity.t = "ratio" /\ avg[1] > 10 * avg[2]
          THEN Min(RoundDiv(30 * (avg[1] - 10 * avg[2]), avg[2]), 300)
          ELSE 0
  IN Max(0, Min(1000, 1000 - issues - complexity))

\* Variant: every pass of the loop is credited with one point.
calculate_quality_score_improving(st, hp) ==
  LET issue_count == StateGet(st, hp, "issue_count", Num(0)).v
      avg_complexity == StateGet(st, hp, "avg_complexity", Num(0))
      iteration == StateGet(st, hp, "iteration", Num(0)).v
  IN Returned(st, StateSet2(st, hp, "quality_score",
                            Float(Min(1000, QualityScore(issue_count,
                                                         avg_complexity)
                                            + 100 * iteration)),
                            "iteration", Num(iteration + 1)))

\* code_review.py 177-200
calculate_quality_score(st, hp) ==
  LET issue_count == StateGet(st, hp, "issue_count", Num(0)).v
      avg_complexity == StateGet(st, hp, "avg_complexity", Num(0))
      iteration == StateGet(st, hp, "iteration", Num(0)).v
  IN Returned(st, StateSet2(st, hp, "quality_score",
                            Float(QualityScore(issue_count, avg_complexity)),
                            "iteration", Num(iteration + 1)))

\* The names the workflow's functions are registered under.
ReviewTools ==
  {"extract_functions", "check_complexity", "detect_issues",
   "suggest_improvements", "calculate_quality_score"}

ReviewCall(fn, st, hp) ==
  CASE fn = "extract_functions" -> extract_functions(st, hp)
    [] fn = "check_complexity" -> check_complexity(st, hp)
    [] fn = "detect_issues" -> detect_issues(st, hp)
    [] fn = "suggest_improvements" -> suggest_improvements(st, hp)
    [] fn = "calculate_quality_score" -> calculate_quality_score(st, hp)

ToolCall(fn, st, hp) ==
  CASE fn = "set_a" ->
         \* state.set("a", 1); returns nothing
         ToolResult(FALSE, StateSet(st, hp, "a", Num(1)), "None", st, EmptyDict)
    [] fn = "incr" ->
         \* state.set("n", state.get("n", 0) + 1); return state
         LET n == StateGet(st, hp, "n", Num(0)) IN
           IF n.t = "num"
             THEN ToolResult(FALSE, StateSet(st, hp, "n", Num(n.v + 1)),
                             "WorkflowState", st, EmptyDict)
             ELSE ToolResult(TRUE, hp, "None", st, EmptyDict)
    [] fn = "merge_bc" ->
         \* return {"b": 3, "c": 4}
         ToolResult(FALSE, hp, "dict", st,
                    [EmptyDict EXCEPT !["b"] = Num(3), !["c"] = Num(4)])
    [] fn = "replace" ->
         \* return WorkflowState(data={**state.data, "a": 2})
         LET d == [hp[st.data] EXCEPT !["a"] = Num(2)]
             hp2 == hp \o <<d, EmptyDict>>
         IN ToolResult(FALSE, hp2, "WorkflowState",
                       [data |-> Len(hp) + 1, metadata |-> Len(hp) + 2],
                       EmptyDict)
    [] fn = "set_then_fail" ->
         \* state.set("a", 9); raise
         ToolResult(TRUE, StateSet(st, hp, "a", Num(9)), "None", st, EmptyDict)
    [] fn = "fail" ->
         \* raise
         ToolResult(TRUE, hp, "None", st, EmptyDict)
    [] fn \in {"set_b", "set_c", "set_m"} ->
         \* state.set(key, 1); return state
         LET i == CHOOSE j \in DOMAIN Setters : Setters[j] = fn IN
           ToolResult(FALSE, StateSet(st, hp, SetterKeys[i], Num(1)),
                      "WorkflowState", st, EmptyDict)
    [] fn = "tag" ->
         \* state.metadata["m"] = 1; returns nothing
         ToolResult(FALSE, [hp EXCEPT ![st.metadata]["m"] = Num(1)], "None",
                    st, EmptyDict)
    [] fn \in ReviewTools -> ReviewCall(fn, st, hp)

\* -------------------------------------------------------------------- Graph
NoNode == [name |-> "", function_name |-> ""]
NoEdge == [kind |-> "none"]
Plain(target) == [kind |-> "str", name |-> target]
Cond(key, op, value, t, f) ==
  [kind |-> "ConditionalEdge", condition_key |-> key,
   condition_operator |-> op, condition_value |-> value,
   true_node |-> t, false_node |-> f]

RECURSIVE FirstNode(_, _, _)
FirstNode(nodes, name, i) ==
  IF i > Len(nodes) THEN NoNode
  ELSE IF nodes[i].name = name THEN nodes[i]
  ELSE FirstNode(nodes, name, i + 1)

\* Variant: an unknown name falls back to the first node of the graph.
get_node_fallback(g, name) ==
  IF FirstNode(g.nodes, name, 1) = NoNode THEN g.nodes[1]
  ELSE FirstNode(g.nodes, name, 1)

\* Graph.get_node: the first node with that name, or NoNode (Python None).
get_node(g, name) == FirstNode(g.nodes, name, 1)

RECURSIVE FirstEdge(_, _, _)
FirstEdge(edges, from, i) ==
  IF i > Len(edges) THEN NoEdge
  ELSE IF edges[i].from_node = from THEN edges[i].to_node
  ELSE FirstEdge(edges, from, i + 1)

RECURSIVE LastEdge(_, _, _)
LastEdge(edges, from, i) ==
  IF i < 1 THEN NoEdge
  ELSE IF edges[i].from_node = from THEN edges[i].to_node
  ELSE LastEdge(edges, from, i - 1)

\* Variant: the last edge leaving the node is followed.
get_next_node_last(g, current_node) ==
  LastEdge(g.edges, current_node, Len(g.edges))

\* Variant: the search starts at the second edge of the list.
get_next_node_skip(g, current_node) == FirstEdge(g.edges, current_node, 2)

\* Graph.get_next_node: to_node of the first edge leaving current_node, or
\* NoEdge (Python None).
get_next_node(g, current_node) == FirstEdge(g.edges, current_node, 1)

\* -------------------------------------------------------------- GraphEngine
Operators == {"<", ">", "<=", ">=", "==", "!="}

\* Python's ordering is defined between two numbers or two strings only.
Comparable(left, right) ==
  left.t = right.t /\ left.t \in {"num", "str"}

\* _compare_values: [raised |-> "none", result |-> b], or the exception the
\* comparison raises.
_compare_values(left, operator, right) ==
  IF operator \in {"<", ">", "<=", ">="}
    THEN IF ~Comparable(left, right)
           THEN [raised |-> "TypeError", result |-> FALSE]
           ELSE [raised |-> "none",
                 result |-> CASE operator = "<" -> left.v < right.v
                              [] operator = ">" -> left.v > right.v
                              [] operator = "<=" -> left.v <= right.v
                              [] operator = ">=" -> left.v >= right.v]
  ELSE IF operator = "==" THEN [raised |-> "none", result |-> left = right]
  ELSE IF operator = "!=" THEN [raised |-> "none", result |-> left # right]
  ELSE [raised |-> "ValueError", result |-> FALSE]

\* Variant: true_node and false_node are swapped.
_evaluate_conditional_edge_swapped(edge, st, hp) ==
  LET state_value == StateGet(st, hp, edge.condition_key, None)
      r == _compare_values(state_value, edge.condition_operator,
                           edge.condition_value)
  IN [raised |-> r.raised,
      next |-> IF r.result THEN edge.false_node ELSE edge.true_node]

\* _evaluate_conditional_edge: the next node name, or the exception.
_evaluate_conditional_edge(edge, st, hp) ==
  LET state_value == StateGet(st, hp, edge.condition_key, None)
      r == _compare_values(state_value, edge.condition_operator,
                           edge.condition_value)
  IN [raised |-> r.raised,
      next |-> IF r.result THEN edge.true_node ELSE edge.false_node]

\* Variant: a node without outgoing edge sends the run back to the start.
NextNodeNameRestart(g, current, st, hp) ==
  LET next_node == get_next_node(g, current) IN
    IF next_node.kind = "none" THEN [raised |-> "none", next |-> g.start_node]
    ELSE IF next_node.kind = "str"
      THEN [raised |-> "none", next |-> next_node.name]
    ELSE _evaluate_conditional_edge(next_node, st, hp)

\* Lines 78-92 of execute: the name assigned to current_node_name after a
\* successful node, or the exception raised while computing it.
NextNodeName(g, current, st, hp) ==
  LET next_node == get_next_node(g, current) IN
    IF next_node.kind = "none" THEN [raised |-> "none", next |-> "END"]
    ELSE IF next_node.kind = "str"
      THEN [raised |-> "none", next |-> next_node.name]
    ELSE _evaluate_conditional_edge(next_node, st, hp)

\* Variant: a returned container is dropped, the passed one stays current.
_execute_node_keep(node, st, hp, reg) ==
  IF ~has(reg, node.function_name)
    THEN [ok |-> FALSE, called |-> FALSE, state |-> st, heap |-> hp,
            registry |-> reg]
  ELSE LET result == ToolCall(get(reg, node.function_name), st, hp) IN
    IF result.raised
      THEN [ok |-> FALSE, called |-> TRUE, state |-> st, heap |-> result.heap,
            registry |-> reg]
    ELSE IF result.kind = "WorkflowState"
      THEN [ok |-> TRUE, called |-> TRUE, state |-> st,
            heap |-> result.heap,
            registry |-> reg]
    ELSE IF result.kind = "dict"
      THEN [ok |-> TRUE, called |-> TRUE, state |-> st,
            heap |-> StateUpdate(st, result.heap, result.dict),
            registry |-> reg]
    ELSE [ok |-> TRUE, called |-> TRUE, state |-> st, heap |-> result.heap,
            registry |-> reg]

\* Variant: the mutations of a failing function are rolled back.
_execute_node_rollback(node, st, hp, reg) ==
  IF ~has(reg, node.function_name)
    THEN [ok |-> FALSE, called |-> FALSE, state |-> st, heap |-> hp,
            registry |-> reg]
  ELSE LET result == ToolCall(get(reg, node.function_name), st, hp) IN
    IF result.raised
      THEN [ok |-> FALSE, called |-> TRUE, state |-> st, heap |-> hp,
            registry |-> reg]
    ELSE IF result.kind = "WorkflowState"
      THEN [ok |-> TRUE, called |-> TRUE, state |-> result.st,
            heap |-> result.heap,
            registry |-> reg]
    ELSE IF result.kind = "dict"
      THEN [ok |-> TRUE, called |-> TRUE, state |-> st,
            heap |-> StateUpdate(st, result.heap, result.dict),
            registry |-> reg]
    ELSE [ok |-> TRUE, called |-> TRUE, state |-> st, heap |-> result.heap,
            registry |-> reg]

\* Variant: a node whose function is not registered is skipped silently.
_execute_node_skip(node, st, hp, reg) ==
  IF ~has(reg, node.function_name)
    THEN [ok |-> TRUE, called |-> FALSE, state |-> st, heap |-> hp,
            registry |-> reg]
  ELSE LET result == ToolCall(get(reg, node.function_name), st, hp) IN
    IF result.raised
      THEN [ok |-> FALSE, called |-> TRUE, state |-> st, heap |-> result.heap,
            registry |-> reg]
    ELSE IF result.kind = "WorkflowState"
      THEN [ok |-> TRUE, called |-> TRUE, state |-> result.st,
            heap |-> result.heap,
            registry |-> reg]
    ELSE IF result.kind = "dict"
      THEN [ok |-> TRUE, called |-> TRUE, state |-> st,
            heap |-> StateUpdate(st, result.heap, result.dict),
            registry |-> reg]
    ELSE [ok |-> TRUE, called |-> TRUE, state |-> st, heap |-> result.heap,
            registry |-> reg]

\* Variant: the lookup takes the function out of the registry.
_execute_node_consume(node, st, hp, reg) ==
  IF ~has(reg, node.function_name)
    THEN [ok |-> FALSE, called |-> FALSE, state |-> st, heap |-> hp,
            registry |-> reg]
  ELSE LET result == ToolCall(get(reg, node.function_name), st, hp)
           left == [n \in DOMAIN reg \ {node.function_name} |-> reg[n]]
       IN
    IF result.raised
      THEN [ok |-> FALSE, called |-> TRUE, state |-> st, heap |-> result.heap,
            registry |-> left]
    ELSE IF result.kind = "WorkflowState"
      THEN [ok |-> TRUE, called |-> TRUE, state |-> result.st,
            heap |-> result.heap, registry |-> left]
    ELSE IF result.kind = "dict"
      THEN [ok |-> TRUE, called |-> TRUE, state |-> st,
            heap |-> StateUpdate(st, result.heap, result.dict),
            registry |-> left]
    ELSE [ok |-> TRUE, called |-> TRUE, state |-> st, heap |-> result.heap,
          registry |-> left]

\* _execute_node: ok is FALSE when it raises; called tells whether the tool
\* function was invoked; state, heap and registry are the caller's view
\* afterwards.
_execute_node(node, st, hp, reg) ==
  IF ~has(reg, node.function_name)
    THEN [ok |-> FALSE, called |-> FALSE, state |-> st, heap |-> hp,
            registry |-> reg]
  ELSE LET result == ToolCall(get(reg, node.function_name), st, hp) IN
    IF result.raised
      THEN [ok |-> FALSE, called |-> TRUE, state |-> st, heap |-> result.heap,
            registry |-> reg]
    ELSE IF result.kind = "WorkflowState"
      THEN [ok |-> TRUE, called |-> TRUE, state |-> result.st,
            heap |-> result.heap,
            registry |-> reg]
    ELSE IF result.kind = "dict"
      THEN [ok |-> TRUE, called |-> TRUE, state |-> st,
            heap |-> StateUpdate(st, result.heap, result.dict),
            registry |-> reg]
    ELSE [ok |-> TRUE, called |-> TRUE, state |-> st, heap |-> result.heap,
            registry |-> reg]

\* Variant: the snapshot is taken of the container the call started with.
_log_step_initial(lg, sc, node, status, message, st, hp) ==
  [step_counter |-> sc + 1,
   execution_log |-> Append(lg, [step |-> sc + 1, node |-> node,
                                 status |-> status, message |-> message,
                                 state_snapshot |-> [data |-> 1,
                                                     metadata |-> 2],
                                 rec |-> Deref([data |-> 1, metadata |-> 2],
                                               hp)])]

\* Variant: an error entry takes the place of the entry recorded before it.
_log_step_overwrite(lg, sc, node, status, message, st, hp) ==
  LET entry == [step |-> sc + 1, node |-> node, status |-> status,
                message |-> message, state_snapshot |-> to_dict(st),
                rec |-> Deref(to_dict(st), hp)]
  IN [step_counter |-> sc + 1,
      execution_log |-> IF status = "error" /\ lg # <<>>
                          THEN [lg EXCEPT ![Len(lg)] = entry]
                          ELSE Append(lg, entry)]

\* Variant: the entry carries the counter as it was before the increment.
_log_step_stale(lg, sc, node, status, message, st, hp) ==
  [step_counter |-> sc + 1,
   execution_log |-> Append(lg, [step |-> sc, node |-> node,
                                 status |-> status, message |-> message,
                                 state_snapshot |-> to_dict(st),
                                 rec |-> Deref(to_dict(st), hp)])]

\* _log_step: the step counter and the log after recording one entry.  The
\* field rec is not part of the program: it keeps the value the snapshot had
\* when it was recorded.
_log_step(lg, sc, node, status, message, st, hp) ==
  [step_counter |-> sc + 1,
   execution_log |-> Append(lg, [step |-> sc + 1, node |-> node,
                                 status |-> status, message |-> message,
                                 state_snapshot |-> to_dict(st),
                                 rec |-> Deref(to_dict(st), hp)])]

\* Variant: the loop goes on after an error entry.
PcAfterContinue(status) == "loop"

\* Where execute continues after an entry was logged: break after an error
\* entry (lines 46, 57 and 76), the next test of the loop condition after a
\* success entry.
PcAfter(status) == IF status = "error" THEN "break" ELSE "loop"

\* Variant: only the empty name ends the loop.
LoopCondNonEmpty(name) == name # ""

\* The while condition of the driver loop.
LoopCond(name) == name # "" /\ name # "END"

\* Variant: the guard never fires.
IterationGuardOff(sc) == FALSE

\* Variant: the guard fires one step late.
IterationGuardLate(sc) == sc > max_iterations

\* The iteration guard at the head of the loop body.
IterationGuard(sc) == sc >= max_iterations

\* ------------------------------------------------------------------ inputs
\* Function names a node may carry.
FunctionNames == ToolNames \cup {Unregistered}

\* Conditional edges: the six operators and an unknown one, over a key the
\* functions write as a number, against a number and against a string, with
\* (true_node, false_node) taken from pairs; and the edges that leave a loop
\* around A after max_iterations rounds towards one of exits.
CondEdges(pairs, exits) ==
  {Cond(k, op, v, tf[1], tf[2]) :
     k \in {"n", "a"}, op \in Operators \cup {"~"},
     v \in {Num(CondVal), Str(1)}, tf \in pairs}
  \cup {Cond("n", "<", Num(max_iterations), "A", f) : f \in exits}

\* The edge lists with at most one edge, leaving node A.
EdgesFromA(plain, pairs, exits) ==
  {<<[from_node |-> "A", to_node |-> Plain(t)]>> : t \in plain}
  \cup {<<[from_node |-> "A", to_node |-> c]>> : c \in CondEdges(pairs, exits)}

\* Graphs of one node: no edge, or an edge to the node itself, to END, to
\* the empty name or to a name that is not a node.
GraphsOneNode ==
  {[nodes |-> <<[name |-> "A", function_name |-> fa]>>,
    edges |-> ea,
    start_node |-> "A"] :
     fa \in FunctionNames,
     ea \in {<<>>} \cup EdgesFromA({"A", "END", "", "ghost"},
                                   {<<"A", "END">>, <<"END", "A">>},
                                   {"END", "ghost", ""})}

\* Node B of the graphs of two nodes: its function and its edges.
SecondNodes ==
  {<<"incr", <<[from_node |-> "B", to_node |-> Plain("A")]>> >>,
   <<"incr", <<>> >>,
   <<"set_then_fail", <<>> >>,
   <<Unregistered, <<>> >>}

\* Graphs of two nodes, with an edge from A that can lead to B.
GraphsTwoNodes ==
  {[nodes |-> <<[name |-> "A", function_name |-> fa],
                [name |-> "B", function_name |-> b[1]]>>,
    edges |-> ea \o b[2],
    start_node |-> "A"] :
     fa \in FunctionNames, b \in SecondNodes,
     ea \in EdgesFromA({"B"}, {<<"B", "ghost">>, <<"END", "B">>}, {"B"})}

\* Graphs whose start_node is END, empty, or not a node.
GraphsOddStart ==
  {[nodes |-> <<[name |-> "A", function_name |-> "set_a"]>>,
    edges |-> <<>>,
    start_node |-> s] : s \in {"END", "", "ghost"}}

\* Linear graphs: n distinct nodes joined by plain edges and started at the
\* first, node i running the i-th setter.
ChainNames == <<"A", "B", "C", "D">>

Chain(n) ==
  [nodes |-> [i \in 1..n |-> [name |-> ChainNames[i],
                              function_name |-> Setters[i]]],
   edges |-> [i \in 1..(n - 1) |-> [from_node |-> ChainNames[i],
                                    to_node |-> Plain(ChainNames[i + 1])]],
   start_node |-> ChainNames[1]]

GraphsLinear == {Chain(n) : n \in 1..MaxChain}

\* Graphs that hold two different edges leaving A: to B, to C, to END or
\* conditional.
TargetsOfA ==
  {Plain("B"), Plain("C"), Plain("END"),
   Cond("a", "==", Num(1), "B", "C"), Cond("a", "==", Num(1), "C", "END")}

GraphsTwoEdges ==
  {[nodes |-> <<[name |-> "A", function_name |-> "set_a"],
                [name |-> "B", function_name |-> "set_b"],
                [name |-> "C", function_name |-> "set_c"]>>,
    edges |-> <<[from_node |-> "A", to_node |-> xy[1]],
                [from_node |-> "B", to_node |-> Plain("END")],
                [from_node |-> "A", to_node |-> xy[2]]>>,
    start_node |-> "A"] :
     xy \in {p \in TargetsOfA \X TargetsOfA : p[1] # p[2]}}

\* Graphs of two nodes in a row whose functions write the metadata, merge a
\* returned mapping, replace the container or update the data.
GraphsMetadata ==
  {[nodes |-> <<[name |-> "A", function_name |-> fa],
                [name |-> "B", function_name |-> fb]>>,
    edges |-> <<[from_node |-> "A", to_node |-> Plain("B")]>>,
    start_node |-> "A"] :
     fa \in MetaWriters \cup {"merge_bc", "replace"},
     fb \in MetaWriters \cup {"merge_bc", "replace", "incr"}}

\* Graphs that hold a node named END, reached from A or started at.
GraphsEndNode ==
  {[nodes |-> <<[name |-> "A", function_name |-> "set_a"],
                [name |-> "END", function_name |-> "set_b"]>>,
    edges |-> <<[from_node |-> "A", to_node |-> Plain("END")]>>,
    start_node |-> s] : s \in {"A", "END"}}

Graphs ==
  GraphsOneNode \cup GraphsTwoNodes \cup GraphsOddStart \cup GraphsLinear
  \cup GraphsTwoEdges \cup GraphsMetadata \cup GraphsEndNode

\* Initial-state mappings handed to execute.
InitialStates ==
  {EmptyDict,
   [EmptyDict EXCEPT !["a"] = Num(1), !["b"] = Num(2)],
   [EmptyDict EXCEPT !["n"] = Str(1)]}

\* No call of execute has ended yet.
NoOutcome ==
  [pc |-> "idle", exc |-> "none",
   state |-> [data |-> EmptyDict, metadata |-> EmptyDict],
   log |-> <<>>, visited |-> <<>>]

\* No lookup was made on the registry yet.
NoLookup == [op |-> "none", name |-> "", raised |-> FALSE, value |-> ""]

\* Variant: every state after the first is built on the dictionaries of the
\* first one.
FreshStateShared(hp, initial_state) ==
  IF hp = <<>>
    THEN [heap |-> hp \o <<initial_state, EmptyDict>>,
          state |-> [data |-> Len(hp) + 1, metadata |-> Len(hp) + 2]]
    ELSE [heap |-> hp, state |-> [data |-> 1, metadata |-> 2]]

\* WorkflowState(data=initial_state): the model copies the mapping into a
\* dictionary of its own and creates an empty metadata dictionary.
FreshState(hp, initial_state) ==
  [heap |-> hp \o <<initial_state, EmptyDict>>,
   state |-> [data |-> Len(hp) + 1, metadata |-> Len(hp) + 2]]

\* What the caller of execute on engine e reads in heap hp: how the call
\* ended, the state and the log with their dictionaries looked up, and the
\* nodes whose functions ran.
OutcomeOf(e, hp) ==
  [pc |-> e.pc, exc |-> e.exc,
   state |-> IF e.pc = "idle" THEN [data |-> EmptyDict, metadata |-> EmptyDict]
             ELSE Deref(to_dict(e.state), hp),
   log |-> [i \in DOMAIN e.execution_log |->
              [step |-> e.execution_log[i].step,
               node |-> e.execution_log[i].node,
               status |-> e.execution_log[i].status,
               message |-> e.execution_log[i].message,
               state_snapshot |->
                 Deref(e.execution_log[i].state_snapshot, hp)]],
   visited |-> e.invoked]

\* GraphEngine(graph) before execute is called with initial_state.
NewEngine(initial_state) ==
  [pc |-> "idle", state |-> [data |-> 0, metadata |-> 0],
   current_node_name |-> "", execution_log |-> <<>>, step_counter |-> 0,
   invoked |-> <<>>, exc |-> "none", input |-> initial_state]

\* Lines 29-34 on engine e.
EngineBegin(e, hp, g) ==
  LET fresh == FreshState(hp, e.input) IN
    [engine |-> [e EXCEPT !.pc = "loop", !.state = fresh.state,
                          !.execution_log = <<>>, !.step_counter = 0,
                          !.current_node_name = g.start_node,
                          !.invoked = <<>>, !.exc = "none"],
     heap |-> fresh.heap]

\* Lines 39-57 on engine e: an error entry is logged and the loop is left.
EngineBreak(e, hp, message) ==
  LET l == _log_step(e.execution_log, e.step_counter, e.current_node_name,
                     "error", message, e.state, hp)
  IN [engine |-> [e EXCEPT !.pc = PcAfter("error"),
                           !.execution_log = l.execution_log,
                           !.step_counter = l.step_counter],
      heap |-> hp]

\* Lines 61-94 on engine e, d being what _execute_node made of the node:
\* the entry is logged and the next name computed.
EngineAfterNode(e, g, d) ==
  LET l == _log_step(e.execution_log, e.step_counter, e.current_node_name,
                     IF d.ok THEN "success" ELSE "error",
                     IF d.ok THEN "executed successfully"
                     ELSE "Error executing node", d.state, d.heap)
      f == NextNodeName(g, e.current_node_name, d.state, d.heap)
      logged == [e EXCEPT !.state = d.state,
                          !.execution_log = l.execution_log,
                          !.step_counter = l.step_counter,
                          !.invoked = IF d.called
                                        THEN Append(e.invoked, e.current_node_name)
                                        ELSE e.invoked]
  IN [engine |-> IF ~d.ok THEN [logged EXCEPT !.pc = PcAfter("error")]
                 ELSE IF f.raised # "none"
                   THEN [logged EXCEPT !.pc = "raised", !.exc = f.raised]
                 ELSE [logged EXCEPT !.current_node_name = f.next],
      heap |-> d.heap, registry |-> d.registry]

\* Lines 60-94 on engine e: the node is run, the entry logged and the next
\* name computed.
EngineRunNode(e, hp, g, reg) ==
  EngineAfterNode(e, g, _execute_node(get_node(g, e.current_node_name),
                                      e.state, hp, reg))

\* A step that makes no call on the registry.
RegistryKept(step, reg) ==
  [engine |-> step.engine, heap |-> step.heap, registry |-> reg]

\* One step of execute (lines 24-97) on engine e over the shared heap hp,
\* graph g and registry reg: the call begins, or one pass of the loop is
\* made, or the call returns.
EngineStep(e, hp, g, reg) ==
  IF e.pc = "idle" THEN RegistryKept(EngineBegin(e, hp, g), reg)
  ELSE IF e.pc = "break" \/ (e.pc = "loop" /\ ~LoopCond(e.current_node_name))
    THEN [engine |-> [e EXCEPT !.pc = "returned"], heap |-> hp,
          registry |-> reg]
  ELSE IF e.pc # "loop" THEN [engine |-> e, heap |-> hp, registry |-> reg]
  ELSE IF IterationGuard(e.step_counter)
    THEN RegistryKept(EngineBreak(e, hp, "Maximum iterations reached"), reg)
  ELSE IF get_node(g, e.current_node_name) = NoNode
    THEN RegistryKept(EngineBreak(e, hp, "Node not found in graph"), reg)
  ELSE EngineRunNode(e, hp, g, reg)

RECURSIVE RunFrom(_, _, _, _, _)
\* execute run to its end from engine e, at most n steps.
RunFrom(e, hp, g, reg, n) ==
  IF e.pc \in {"returned", "raised"} \/ n = 0 THEN OutcomeOf(e, hp)
  ELSE LET s == EngineStep(e, hp, g, reg)
       IN RunFrom(s.engine, s.heap, g, s.registry, n - 1)

\* What execute(initial_state) returns when it is the only run of the
\* process.
RunAlone(g, reg, initial_state) ==
  RunFrom(NewEngine(initial_state), <<>>, g, reg, StepCap + 3)

\* -------------------------------------------------------- InMemoryStorage
\* graph.graph_id of a Graph that was never saved; the result of dict.get on
\* a missing key.
NoId == 0
NotStored == 0

\* The Graph objects the callers hold, and the calling threads.
Objects == 1..NumObjects
Threads == 1..NumThreads

\* d[key] = value on a dictionary kept as a function.
DictSet(d, key, value) ==
  [k \in DOMAIN d \cup {key} |-> IF k = key THEN value ELSE d[k]]

\* d.get(key) on a dictionary whose values are object numbers.
DictGetOr(d, key, default) == IF key \in DOMAIN d THEN d[key] ELSE default

\* A thread outside any call of the storage.
ThreadIdle ==
  [pc |-> "idle", op |-> "none", arg |-> 0, id |-> 0, result |-> 0,
   listed |-> {}, calls |-> 0]

\* InMemoryStorage.__init__, lines 15-18, with Graph objects that carry no
\* identifier yet and threads that made no call.
StorageNew ==
  /\ _graphs = [k \in {} |-> 0]
  /\ _runs = [k \in {} |-> 0]
  /\ _lock = 0
  /\ objects = [o \in Objects |-> NoId]
  /\ threads = [t \in Threads |-> ThreadIdle]
  /\ saved = {}
  /\ uuid = 0

\* Variant: the lock is handed out whoever holds it.
CanAcquireAlways(lk) == TRUE

\* threading.Lock: "with self._lock" blocks until no thread holds the lock.
CanAcquire(lk) == lk = 0

\* The first statement inside the with block of each method.
FirstLine(op) ==
  CASE op = "save_graph" -> "line23"
    [] op = "save_run" -> "line37"
    [] op = "get_graph" -> "line31"
    [] op = "get_run" -> "line48"
    [] op = "list_graphs" -> "line53"
    [] op = "list_runs" -> "line58"

\* ------------------------------------------------------------------ routes
\* No request was answered yet.
NoResponse ==
  [code |-> 0, kind |-> "none", run_id |-> 0, status |-> "",
   state |-> [data |-> EmptyDict, metadata |-> EmptyDict],
   execution_log |-> <<>>]

\* Variant: a run whose log ends with an error entry is reported as failed.
RunStatusByLog(lg) ==
  IF lg # <<>> /\ lg[Len(lg)].status = "error" THEN "failed"
  ELSE "completed"

\* routes.py 95 and 104: the status run_graph stores and reports.
RunStatus(lg) == "completed"

\* ---------------------------------------------------------------- behaviour
\* GraphEngine.__init__ on some graph, with the registry as populated at
\* startup.
\* The registry every engine of the model is given.
InitialRegistry == [f \in RegisteredNames |-> f]

Init ==
  /\ graph \in Graphs
  /\ tools = InitialRegistry
  /\ pc = "idle"
  /\ state = [data |-> 0, metadata |-> 0]
  /\ heap = <<>>
  /\ current_node_name = ""
  /\ execution_log = <<>>
  /\ step_counter = 0
  /\ invoked = <<>>
  /\ exc = "none"
  /\ runs = 0
  /\ input = EmptyDict
  /\ first = NoOutcome
  /\ engines = <<>>
  /\ regs = <<>>
  /\ got = NoLookup
  /\ StorageNew
  /\ response = NoResponse

\* Variant: the counter and the log of the previous call are kept.
BeginNoReset(initial_state) ==
  /\ LET fresh == FreshState(heap, initial_state) IN
       /\ heap' = fresh.heap
       /\ state' = fresh.state
  /\ UNCHANGED <<execution_log, step_counter>>
  /\ current_node_name' = graph.start_node
  /\ invoked' = <<>>
  /\ exc' = "none"
  /\ pc' = "loop"

\* execute, lines 29-34: a fresh WorkflowState around a copy of the initial
\* mapping, the log and the counter reset, the start node made current.
Begin(initial_state) ==
  /\ LET fresh == FreshState(heap, initial_state) IN
       /\ heap' = fresh.heap
       /\ state' = fresh.state
  /\ execution_log' = <<>>
  /\ step_counter' = 0
  /\ current_node_name' = graph.start_node
  /\ invoked' = <<>>
  /\ exc' = "none"
  /\ pc' = "loop"

\* The first call of execute on the engine.
Execute ==
  /\ pc = "idle"
  /\ \E initial_state \in InitialStates :
       /\ Begin(initial_state)
       /\ input' = initial_state
  /\ runs' = runs + 1
  /\ UNCHANGED <<graph, tools, first, elsewhere>>

\* The engine of this model as one record: the position of its execute call
\* and the fields of the GraphEngine instance.
Self ==
  [pc |-> pc, state |-> state, current_node_name |-> current_node_name,
   execution_log |-> execution_log, step_counter |-> step_counter,
   invoked |-> invoked, exc |-> exc, input |-> input]

\* What a call of execute left to its caller: how it ended, the final state
\* and the log as the caller reads them, and the nodes whose functions ran.
Outcome == OutcomeOf(Self, heap)

\* A further call of execute on the same engine instance, with the same
\* initial mapping, after the previous call ended.
ExecuteAgain ==
  /\ pc \in {"returned", "raised"}
  /\ runs < MaxRuns
  /\ Begin(input)
  /\ runs' = runs + 1
  /\ first' = IF runs = 1 THEN Outcome ELSE first
  /\ UNCHANGED <<graph, tools, input, elsewhere>>

\* The loop body is entered.
InBody == pc = "loop" /\ LoopCond(current_node_name) /\ step_counter < StepCap

\* Lines 39-46: the iteration guard fires.
IterationCap ==
  /\ InBody
  /\ IterationGuard(step_counter)
  /\ LET l == _log_step(execution_log, step_counter, current_node_name,
                        "error", "Maximum iterations reached", state, heap)
     IN /\ execution_log' = l.execution_log
        /\ step_counter' = l.step_counter
  /\ pc' = PcAfter("error")
  /\ UNCHANGED <<graph, tools, state, heap, current_node_name, invoked, exc>>
  /\ UNCHANGED <<runs, input, first, elsewhere>>

\* Lines 49-57: the current name is not a node of the graph.
NodeNotFound ==
  /\ InBody
  /\ ~IterationGuard(step_counter)
  /\ get_node(graph, current_node_name) = NoNode
  /\ LET l == _log_step(execution_log, step_counter, current_node_name,
                        "error", "Node not found in graph", state, heap)
     IN /\ execution_log' = l.execution_log
        /\ step_counter' = l.step_counter
  /\ pc' = PcAfter("error")
  /\ UNCHANGED <<graph, tools, state, heap, current_node_name, invoked, exc>>
  /\ UNCHANGED <<runs, input, first, elsewhere>>

\* The node to run in the loop body, once the guard and the lookup passed.
Dispatching ==
  /\ InBody
  /\ ~IterationGuard(step_counter)
  /\ get_node(graph, current_node_name) # NoNode

\* Lines 60-61: the call of _execute_node on the current node.
Dispatch == _execute_node(get_node(graph, current_node_name), state, heap, tools)

\* Lines 60-76, the except branch: _execute_node raised.
NodeError ==
  /\ Dispatching
  /\ ~Dispatch.ok
  /\ heap' = Dispatch.heap
  /\ state' = Dispatch.state
  /\ LET l == _log_step(execution_log, step_counter, current_node_name,
                        "error", "Error executing node", Dispatch.state,
                        Dispatch.heap)
     IN /\ execution_log' = l.execution_log
        /\ step_counter' = l.step_counter
  /\ invoked' = IF Dispatch.called THEN Append(invoked, current_node_name)
                ELSE invoked
  /\ pc' = PcAfter("error")
  /\ tools' = Dispatch.registry
  /\ UNCHANGED <<graph, current_node_name, exc>>
  /\ UNCHANGED <<runs, input, first, elsewhere>>

\* What lines 78-92 compute after the node succeeded.
Following == NextNodeName(graph, current_node_name, Dispatch.state, Dispatch.heap)

\* Lines 60-67, the node succeeded and its success entry is recorded.
RecordSuccess ==
  /\ Dispatching
  /\ Dispatch.ok
  /\ heap' = Dispatch.heap
  /\ state' = Dispatch.state
  /\ LET l == _log_step(execution_log, step_counter, current_node_name,
                        "success", "executed successfully", Dispatch.state,
                        Dispatch.heap)
     IN /\ execution_log' = l.execution_log
        /\ step_counter' = l.step_counter
  /\ invoked' = Append(invoked, current_node_name)
  /\ tools' = Dispatch.registry

\* Lines 60-67 and 78-94: the node succeeded and the next name is computed.
NodeSuccess ==
  /\ RecordSuccess
  /\ Following.raised = "none"
  /\ current_node_name' = Following.next
  /\ pc' = PcAfter("success")
  /\ UNCHANGED <<graph, exc>>
  /\ UNCHANGED <<runs, input, first, elsewhere>>

\* Lines 60-67 and 78-92: the node succeeded and evaluating its conditional
\* edge raised; nothing in execute catches it.
EdgeRaise ==
  /\ RecordSuccess
  /\ Following.raised # "none"
  /\ exc' = Following.raised
  /\ pc' = "raised"
  /\ UNCHANGED <<graph, current_node_name>>
  /\ UNCHANGED <<runs, input, first, elsewhere>>

\* Lines 96-97: the loop is left (condition false, or break) and execute
\* returns (state, execution_log).
Return ==
  /\ \/ pc = "break"
     \/ pc = "loop" /\ ~LoopCond(current_node_name)
  /\ pc' = "returned"
  /\ UNCHANGED <<graph, tools, state, heap, current_node_name, execution_log,
                 step_counter, invoked, exc>>
  /\ UNCHANGED <<runs, input, first, elsewhere>>

Next ==
  \/ Execute
  \/ IterationCap
  \/ NodeNotFound
  \/ NodeError
  \/ NodeSuccess
  \/ EdgeRaise
  \/ Return

Spec == Init /\ [][Next]_vars

\* The scheduling of a single synchronous call: a step that can be taken is
\* taken.
FairSpec == Spec /\ WF_vars(Next)

\* One engine instance on which execute is called up to MaxRuns times.
NextRerun ==
  \/ Next
  \/ ExecuteAgain

SpecRerun == Init /\ [][NextRerun]_vars

\* The graphs several runs are executed on at once: a chain, and one-node
\* graphs whose function updates, merges, replaces, fails or is missing, with
\* no edge or with a conditional edge back to the node.
GraphsShared ==
  {Chain(2)} \cup
  {[nodes |-> <<[name |-> "A", function_name |-> fa]>>,
    edges |-> es,
    start_node |-> "A"] :
     fa \in {"incr", "merge_bc", "replace", "set_then_fail", Unregistered},
     es \in {<<>>, <<[from_node |-> "A",
                     to_node |-> Cond("n", "<", Num(CondVal), "A", "END")]>>}}

\* routes.py run_graph: NumRuns requests on the same stored graph, each with
\* an engine of its own and its own initial mapping.
InitConcurrent ==
  /\ graph \in GraphsShared
  /\ tools = InitialRegistry
  /\ heap = <<>>
  /\ engines \in [1..NumRuns -> {NewEngine(i) : i \in InitialStates}]
  /\ pc = "idle"
  /\ state = [data |-> 0, metadata |-> 0]
  /\ current_node_name = ""
  /\ execution_log = <<>>
  /\ step_counter = 0
  /\ invoked = <<>>
  /\ exc = "none"
  /\ runs = 0
  /\ input = EmptyDict
  /\ first = NoOutcome
  /\ regs = <<>>
  /\ got = NoLookup
  /\ StorageNew
  /\ response = NoResponse

\* Run r makes its next step of execute; the steps of the runs interleave.
RunStep(r) ==
  /\ engines[r].pc \notin {"returned", "raised"}
  /\ LET s == EngineStep(engines[r], heap, graph, tools) IN
       /\ engines' = [engines EXCEPT ![r] = s.engine]
       /\ heap' = s.heap
       /\ tools' = s.registry
  /\ UNCHANGED <<graph, pc, state, current_node_name, execution_log,
                 step_counter, invoked, exc, runs, input, first, regs, got,
                 storage, response>>

NextConcurrent == \E r \in 1..NumRuns : RunStep(r)

SpecConcurrent == InitConcurrent /\ [][NextConcurrent]_vars

\* The names and the functions the callers of a registry use.
RegistryNames == {"t1", "t2", "t3"}
RegistryFuncs == {"set_a", "incr"}

\* A ToolRegistry of its own, as constructed.
InitRegistry ==
  /\ tools = EmptyRegistry
  /\ regs = <<>>
  /\ got = NoLookup
  /\ graph = Chain(1)
  /\ heap = <<>>
  /\ engines = <<>>
  /\ pc = "idle"
  /\ state = [data |-> 0, metadata |-> 0]
  /\ current_node_name = ""
  /\ execution_log = <<>>
  /\ step_counter = 0
  /\ invoked = <<>>
  /\ exc = "none"
  /\ runs = 0
  /\ input = EmptyDict
  /\ first = NoOutcome
  /\ StorageNew
  /\ response = NoResponse

\* What no operation of the registry touches.
EngineIdle ==
  UNCHANGED <<graph, heap, engines, pc, state, current_node_name,
              execution_log, step_counter, invoked, exc, runs, input, first,
              storage, response>>

\* registry.register(name, func); regs remembers the calls made.
Register ==
  /\ Len(regs) < MaxRegs
  /\ \E name \in RegistryNames, func \in RegistryFuncs :
       /\ tools' = register(tools, name, func)
       /\ regs' = Append(regs, [name |-> name, func |-> func])
       /\ got' = [op |-> "register", name |-> name, raised |-> FALSE,
                  value |-> ""]
  /\ EngineIdle

\* registry.get(name); got is what the caller receives.
Get ==
  /\ \E name \in RegistryNames : got' = get_call(tools, name)
  /\ UNCHANGED <<tools, regs>>
  /\ EngineIdle

\* registry.has(name)
Has ==
  /\ \E name \in RegistryNames :
       got' = [op |-> "has", name |-> name, raised |-> FALSE,
               value |-> IF has(tools, name) THEN "True" ELSE "False"]
  /\ UNCHANGED <<tools, regs>>
  /\ EngineIdle

NextRegistry ==
  \/ Register
  \/ Get
  \/ Has

SpecRegistry == InitRegistry /\ [][NextRegistry]_vars

\* get_code_review_workflow_definition, lines 203-255.
CodeReviewGraph ==
  [nodes |-> <<[name |-> "extract", function_name |-> "extract_functions"],
               [name |-> "analyze", function_name |-> "check_complexity"],
               [name |-> "detect", function_name |-> "detect_issues"],
               [name |-> "suggest", function_name |-> "suggest_improvements"],
               [name |-> "score",
                function_name |-> "calculate_quality_score"]>>,
   edges |-> <<[from_node |-> "extract", to_node |-> Plain("analyze")],
               [from_node |-> "analyze", to_node |-> Plain("detect")],
               [from_node |-> "detect", to_node |-> Plain("suggest")],
               [from_node |-> "suggest", to_node |-> Plain("score")],
               [from_node |-> "score",
                to_node |-> Cond("quality_score", "<", Float(700),
                                 "analyze", "END")]>>,
   start_node |-> "extract"]

\* The initial mappings given to the workflow: no code, a code value that is
\* not a text, or a source text.
ReviewInputs ==
  {[[k \in ReviewKeys |-> Absent] EXCEPT !["code"] = c] :
     c \in {Absent, Num(5)} \cup {Str(s) : s \in Sources}}

\* The registry after code_review.py was imported.
ReviewRegistry == [f \in ReviewTools |-> f]

InitReview ==
  /\ graph = CodeReviewGraph
  /\ tools = ReviewRegistry
  /\ pc = "idle"
  /\ state = [data |-> 0, metadata |-> 0]
  /\ heap = <<>>
  /\ current_node_name = ""
  /\ execution_log = <<>>
  /\ step_counter = 0
  /\ invoked = <<>>
  /\ exc = "none"
  /\ runs = 0
  /\ input = EmptyDict
  /\ first = NoOutcome
  /\ engines = <<>>
  /\ regs = <<>>
  /\ got = NoLookup
  /\ StorageNew
  /\ response = NoResponse

\* execute is called on the workflow's graph.
ExecuteReview ==
  /\ pc = "idle"
  /\ \E initial_state \in ReviewInputs :
       /\ Begin(initial_state)
       /\ input' = initial_state
  /\ runs' = runs + 1
  /\ UNCHANGED <<graph, tools, first, elsewhere>>

\* The steps of execute on the workflow's graph: every name an edge leads
\* to is a node and the score is a number once score ran, so no lookup
\* fails and no edge evaluation raises.
NextReview ==
  \/ ExecuteReview
  \/ IterationCap
  \/ NodeError
  \/ NodeSuccess
  \/ Return

SpecReview == InitReview /\ [][NextReview]_vars

\* The graph was created and stored under identifier 1 (create_graph), and
\* a request to run it is about to be served.
InitApi ==
  /\ graph \in Graphs
  /\ tools = InitialRegistry
  /\ pc = "idle"
  /\ state = [data |-> 0, metadata |-> 0]
  /\ heap = <<>>
  /\ current_node_name = ""
  /\ execution_log = <<>>
  /\ step_counter = 0
  /\ invoked = <<>>
  /\ exc = "none"
  /\ runs = 0
  /\ input = EmptyDict
  /\ first = NoOutcome
  /\ engines = <<>>
  /\ regs = <<>>
  /\ got = NoLookup
  /\ _graphs = [k \in {1} |-> 1]
  /\ _runs = [k \in {} |-> 0]
  /\ _lock = 0
  /\ objects = [o \in Objects |-> IF o = 1 THEN 1 ELSE NoId]
  /\ threads = [t \in Threads |-> ThreadIdle]
  /\ saved = {}
  /\ uuid = 1
  /\ response = NoResponse

\* What the routes leave alone: the engine's run and the rest of the
\* storage.
RoutesOnly ==
  UNCHANGED <<graph, tools, pc, state, heap, current_node_name,
              execution_log, step_counter, invoked, exc, runs, input, first,
              engines, regs, got, _graphs, _lock, objects, threads, saved>>

\* run_graph, lines 86-106: execute returned; the run is saved under a new
\* uuid4 identifier, with the returned container and log, and reported.
RunGraphRespond ==
  /\ pc = "returned"
  /\ response.kind = "none"
  /\ uuid' = uuid + 1
  /\ _runs' = DictSet(_runs, uuid + 1,
                      [run_id |-> uuid + 1, graph_id |-> 1, state |-> state,
                       execution_log |-> execution_log,
                       status |-> RunStatus(execution_log)])
  /\ response' = [code |-> 200, kind |-> "run", run_id |-> uuid + 1,
                  status |-> RunStatus(execution_log),
                  state |-> Outcome.state, execution_log |-> Outcome.log]
  /\ RoutesOnly

\* run_graph, lines 110-112: execute raised; nothing is saved and the
\* request is answered with status code 500.
RunGraphFail ==
  /\ pc = "raised"
  /\ response.kind = "none"
  /\ response' = [NoResponse EXCEPT !.code = 500, !.kind = "error"]
  /\ UNCHANGED <<_runs, uuid>>
  /\ RoutesOnly

\* The stored log as get_state serialises it.
StoredLog(run) ==
  [i \in DOMAIN run.execution_log |->
     [step |-> run.execution_log[i].step,
      node |-> run.execution_log[i].node,
      status |-> run.execution_log[i].status,
      message |-> run.execution_log[i].message,
      state_snapshot |-> Deref(run.execution_log[i].state_snapshot, heap)]]

\* get_state, lines 126-139: the stored run is looked up and reported, or
\* the request is answered with 404.
GetState ==
  /\ response.kind # "none"
  /\ \E run_id \in 1..(uuid + 1) :
       response' =
         IF run_id \notin DOMAIN _runs
           THEN [NoResponse EXCEPT !.code = 404, !.kind = "state",
                                   !.run_id = run_id]
           ELSE [code |-> 200, kind |-> "state", run_id |-> run_id,
                 status |-> _runs[run_id].status,
                 state |-> Deref(to_dict(_runs[run_id].state), heap),
                 execution_log |-> StoredLog(_runs[run_id])]
  /\ UNCHANGED <<_runs, uuid>>
  /\ RoutesOnly

NextApi ==
  \/ Next
  \/ RunGraphRespond
  \/ RunGraphFail
  \/ GetState

SpecApi == InitApi /\ [][NextApi]_vars

\* The global InMemoryStorage called from NumThreads request threads.
InitStorage ==
  /\ StorageNew
  /\ response = NoResponse
  /\ graph = Chain(1)
  /\ tools = InitialRegistry
  /\ heap = <<>>
  /\ engines = <<>>
  /\ regs = <<>>
  /\ got = NoLookup
  /\ pc = "idle"
  /\ state = [data |-> 0, metadata |-> 0]
  /\ current_node_name = ""
  /\ execution_log = <<>>
  /\ step_counter = 0
  /\ invoked = <<>>
  /\ exc = "none"
  /\ runs = 0
  /\ input = EmptyDict
  /\ first = NoOutcome

\* What no method of the storage touches.
StorageOnly ==
  UNCHANGED <<graph, tools, heap, engines, regs, got, pc, state,
              current_node_name, execution_log, step_counter, invoked, exc,
              runs, input, first, response>>

\* The calls a thread can make now: save_graph on an object it holds,
\* save_run under a new uuid4 run id for a stored graph (routes.py 77-96),
\* the lookups by an identifier handed out so far or by an unknown one, and
\* the two listings.
Calls ==
  {[op |-> "save_graph", arg |-> o, id |-> 0] : o \in Objects}
  \cup {[op |-> "save_run", arg |-> g, id |-> uuid + 1] : g \in DOMAIN _graphs}
  \cup {[op |-> o, arg |-> 0, id |-> i] :
          o \in {"get_graph", "get_run"}, i \in 1..(uuid + 1)}
  \cup {[op |-> o, arg |-> 0, id |-> 0] : o \in {"list_graphs", "list_runs"}}

\* Thread t calls a method and enters its "with self._lock" block.
Enter(t) ==
  /\ threads[t].pc = "idle"
  /\ threads[t].calls < MaxCalls
  /\ CanAcquire(_lock)
  /\ _lock' = t
  /\ \E call \in Calls :
       /\ threads' = [threads EXCEPT ![t] =
                        [pc |-> FirstLine(call.op), op |-> call.op,
                         arg |-> call.arg, id |-> call.id, result |-> 0,
                         listed |-> {}, calls |-> @.calls + 1]]
       /\ uuid' = IF call.op = "save_run" THEN uuid + 1 ELSE uuid
  /\ UNCHANGED <<_graphs, _runs, objects, saved>>
  /\ StorageOnly

\* save_graph line 23: if not graph.graph_id
SaveGraphTest(t) ==
  /\ threads[t].pc = "line23"
  /\ threads' = [threads EXCEPT ![t].pc =
                   IF objects[threads[t].arg] = NoId THEN "line24"
                   ELSE "line25"]
  /\ UNCHANGED <<_graphs, _runs, _lock, objects, saved, uuid>>
  /\ StorageOnly

\* save_graph line 24: graph.graph_id = str(uuid.uuid4())
SaveGraphAssign(t) ==
  /\ threads[t].pc = "line24"
  /\ uuid' = uuid + 1
  /\ objects' = [objects EXCEPT ![threads[t].arg] = uuid + 1]
  /\ threads' = [threads EXCEPT ![t].pc = "line25"]
  /\ UNCHANGED <<_graphs, _runs, _lock, saved>>
  /\ StorageOnly

\* save_graph lines 25-26: the graph is stored under its identifier, the
\* identifier returned and the lock released.
SaveGraphStore(t) ==
  /\ threads[t].pc = "line25"
  /\ LET o == threads[t].arg
         gid == objects[o]
     IN /\ _graphs' = DictSet(_graphs, gid, o)
        /\ threads' = [threads EXCEPT ![t].pc = "idle", ![t].result = gid]
        /\ saved' = saved \cup {[kind |-> "graph", id |-> gid, value |-> o]}
  /\ _lock' = 0
  /\ UNCHANGED <<_runs, objects, uuid>>
  /\ StorageOnly

\* save_run lines 37-43: the run record is stored under run_id and the lock
\* released.
SaveRunStore(t) ==
  /\ threads[t].pc = "line37"
  /\ _runs' = DictSet(_runs, threads[t].id, threads[t].arg)
  /\ threads' = [threads EXCEPT ![t].pc = "idle"]
  /\ saved' = saved \cup {[kind |-> "run", id |-> threads[t].id,
                            value |-> threads[t].arg]}
  /\ _lock' = 0
  /\ UNCHANGED <<_graphs, objects, uuid>>
  /\ StorageOnly

\* What a reading method returns from the dictionaries as they are now.
ReadResult(op, id) ==
  CASE op = "get_graph" ->
         [result |-> DictGetOr(_graphs, id, NotStored), listed |-> {}]
    [] op = "get_run" ->
         [result |-> DictGetOr(_runs, id, NotStored), listed |-> {}]
    [] op = "list_graphs" -> [result |-> 0, listed |-> DOMAIN _graphs]
    [] op = "list_runs" -> [result |-> 0, listed |-> DOMAIN _runs]

\* get_graph line 31, get_run line 48, list_graphs line 53, list_runs line
\* 58: the value is read and returned and the lock released.
Read(t) ==
  /\ threads[t].pc \in {"line31", "line48", "line53", "line58"}
  /\ LET r == ReadResult(threads[t].op, threads[t].id) IN
       threads' = [threads EXCEPT ![t].pc = "idle", ![t].result = r.result,
                                  ![t].listed = r.listed]
  /\ _lock' = 0
  /\ UNCHANGED <<_graphs, _runs, objects, saved, uuid>>
  /\ StorageOnly

NextStorage ==
  \/ \E t \in Threads : Enter(t)
  \/ \E t \in Threads : SaveGraphTest(t)
  \/ \E t \in Threads : SaveGraphAssign(t)
  \/ \E t \in Threads : SaveGraphStore(t)
  \/ \E t \in Threads : SaveRunStore(t)
  \/ \E t \in Threads : Read(t)

SpecStorage == InitStorage /\ [][NextStorage]_vars

TypeOK ==
  /\ pc \in {"idle", "loop", "break", "returned", "raised"}
  /\ step_counter \in 0..StepCap
  /\ exc \in {"none", "TypeError", "ValueError"}

\* ------------------------------------------------------------- shorthands
LastEntry == execution_log[Len(execution_log)]

HasError == \E i \in DOMAIN execution_log : execution_log[i].status = "error"

\* The outgoing edge of the current node.
OutEdge == get_next_node(graph, current_node_name)

\* The node the loop body is about to run.
CurrentNode == get_node(graph, current_node_name)

\* After a break nothing but the return happens: no entry is added, no
\* function is invoked and the state stays as it is.
HaltsAfterBreak ==
  pc = "break" =>
    /\ pc' = "returned"
    /\ UNCHANGED <<state, heap, execution_log, step_counter, invoked>>

\* The step appends exactly one error entry, naming the current node.
AppendsOneError ==
  /\ Len(execution_log') = Len(execution_log) + 1
  /\ SubSeq(execution_log', 1, Len(execution_log)) = execution_log
  /\ execution_log'[Len(execution_log')].status = "error"
  /\ execution_log'[Len(execution_log')].node = current_node_name

\* The guard of the model on the step counter is never the reason a step is
\* not taken: the engine stops at max_iterations + 1 entries.
CapNeverBinds == step_counter <= max_iterations + 1 /\ max_iterations + 1 < StepCap

\* --------------------------------------------------------------------- C1
\* C1: every call of execute eventually leaves the driver loop (it returns,
\* or an exception leaves it), on every graph, cyclic ones included, and
\* every initial state.  Checked under FairSpec.
C1_Terminates == <>(pc \in {"returned", "raised"})

\* A run around a cycle that the iteration guard ended.
C1_Witness ==
  /\ pc = "returned"
  /\ Len(execution_log) = max_iterations + 1
  /\ LastEntry.message = "Maximum iterations reached"

\* --------------------------------------------------------------------- C2
C2_Counts ==
  /\ Len(invoked) <= max_iterations
  /\ Len(execution_log) <= max_iterations + 1

C2_GuardStep ==
  (pc = "loop" /\ LoopCond(current_node_name)
     /\ Len(execution_log) = max_iterations) =>
    /\ AppendsOneError
    /\ Len(execution_log') = max_iterations + 1
    /\ invoked' = invoked
    /\ pc' = "break"

C2_HundredThenEnd ==
  (current_node_name = "END" /\ Len(invoked) = max_iterations) =>
    /\ Len(execution_log) = max_iterations
    /\ ~HasError

\* C2: at most 100 step functions are invoked and the log never holds more
\* than 101 entries; at the head of the loop with 100 entries logged and a
\* current node to run, entry 101 is an error entry naming that node, its
\* function is not invoked and the loop exits; a run that reaches END after
\* 100 node executions has 100 entries and no error entry.
C2_IterationBound ==
  /\ [](C2_Counts /\ C2_HundredThenEnd)
  /\ [][C2_GuardStep /\ HaltsAfterBreak]_vars

\* The guard has just fired.
C2_Witness ==
  /\ pc = "break"
  /\ Len(execution_log) = max_iterations + 1
  /\ Len(invoked) = max_iterations
  /\ LastEntry.status = "error"

\* A run that reached END with its 100th node.
C2_WitnessEnd ==
  /\ pc = "returned"
  /\ current_node_name = "END"
  /\ Len(invoked) = max_iterations
  /\ ~HasError

\* --------------------------------------------------------------------- C3
\* C3: execute never raises: every failure ends the run with an error entry
\* and a return of (state, log).
C3_NeverRaises == pc # "raised"

\* --------------------------------------------------------------------- C4
\* C4: a conditional edge with an unknown operator is handled like a failing
\* step function: an error entry is recorded, the loop exits and execute
\* returns.
C4_UnknownOperatorLogged ==
  [][(/\ Dispatching
      /\ Dispatch.ok
      /\ OutEdge.kind = "ConditionalEdge"
      /\ OutEdge.condition_operator \notin Operators) =>
       (/\ pc' = "break"
        /\ execution_log'[Len(execution_log')].status = "error"
        /\ exc' = "none")]_vars

\* --------------------------------------------------------------------- C5
\* Python values the way the edge reads them after the current node ran.
EdgeOperand ==
  StateGet(Dispatch.state, Dispatch.heap, OutEdge.condition_key, None)

\* C5: a conditional edge that compares incompatible types under an ordering
\* operator is a fatal failure of that step: an error entry is recorded, the
\* loop exits and execute returns.
C5_TypeMismatchLogged ==
  [][(/\ Dispatching
      /\ Dispatch.ok
      /\ OutEdge.kind = "ConditionalEdge"
      /\ OutEdge.condition_operator \in {"<", ">", "<=", ">="}
      /\ ~Comparable(EdgeOperand, OutEdge.condition_value)) =>
       (/\ pc' = "break"
        /\ execution_log'[Len(execution_log')].status = "error"
        /\ exc' = "none")]_vars

\* --------------------------------------------------------------------- C6
\* C6: what a reader sees in the state_snapshot of a log entry is what the
\* state was when the entry was recorded, whatever happened to the state
\* afterwards.
C6_SnapshotsFrozen ==
  \A i \in DOMAIN execution_log :
    Deref(execution_log[i].state_snapshot, heap) = execution_log[i].rec

\* --------------------------------------------------------------------- C7
\* C7: the i-th log entry has step = i, for success and error entries alike,
\* and the step counter equals the log length, in every state of the run.
C7_StepsAreIndices ==
  /\ step_counter = Len(execution_log)
  /\ \A i \in DOMAIN execution_log : execution_log[i].step = i

\* A log of success entries closed by an error entry.
C7_Witness ==
  /\ pc = "returned"
  /\ Len(execution_log) >= 3
  /\ execution_log[1].status = "success"
  /\ LastEntry.status = "error"

\* --------------------------------------------------------------------- C8
\* The step function of the current node is invoked and raises.
FunctionRaises ==
  /\ Dispatching
  /\ has(tools, CurrentNode.function_name)
  /\ ToolCall(get(tools, CurrentNode.function_name), state, heap).raised

C8_RaiseStep ==
  FunctionRaises =>
    /\ AppendsOneError
    /\ invoked' = Append(invoked, current_node_name)
    /\ current_node_name' = current_node_name
    /\ pc' = "break"
    /\ exc' = "none"
    \* the mutations made before the failure are kept
    /\ state' = state
    /\ heap' = ToolCall(get(tools, CurrentNode.function_name), state, heap).heap
    /\ Deref(execution_log'[Len(execution_log')].state_snapshot, heap')
         = Deref(to_dict(state), heap')

\* C8: when a step function raises, exactly one error entry for that node is
\* appended, no further function is invoked, no edge is evaluated and execute
\* returns; the mutations the function made before failing are in the
\* entry's snapshot and in the returned state.
C8_RaiseIsFatal == [][C8_RaiseStep /\ HaltsAfterBreak]_vars

\* set_then_fail wrote a = 9 and raised: the write is in the snapshot and in
\* the returned state.
C8_Witness ==
  /\ pc = "returned"
  /\ Len(execution_log) >= 1
  /\ LastEntry.status = "error"
  /\ get_node(graph, LastEntry.node).function_name = "set_then_fail"
  /\ heap[state.data]["a"] = Num(9)
  /\ Deref(LastEntry.state_snapshot, heap).data["a"] = Num(9)

\* --------------------------------------------------------------------- C9
\* The current node exists and its function is not registered.
FunctionMissing ==
  /\ pc = "loop"
  /\ current_node_name \notin {"END", ""}
  /\ \E i \in DOMAIN graph.nodes :
       /\ graph.nodes[i].name = current_node_name
       /\ graph.nodes[i].function_name \notin DOMAIN tools

C9_MissingStep ==
  FunctionMissing =>
    /\ AppendsOneError
    /\ invoked' = invoked
    /\ current_node_name' = current_node_name
    /\ pc' = "break"
    /\ state' = state
    /\ heap' = heap

C9_StartNodeMissing ==
  (/\ pc \in {"break", "returned"}
   /\ get_node(graph, graph.start_node) # NoNode
   /\ ~has(tools, get_node(graph, graph.start_node).function_name)) =>
     /\ Len(execution_log) = 1
     /\ LastEntry.status = "error"
     /\ LastEntry.node = graph.start_node
     /\ invoked = <<>>

\* C9: when the function of the current node is not registered, no step
\* function is invoked, exactly one error entry for that node is appended,
\* the run halts there with the state as it was before the node was visited;
\* when the node is the start node the log has exactly one entry.
C9_MissingFunction ==
  /\ [][C9_MissingStep /\ HaltsAfterBreak]_vars
  /\ [](C9_StartNodeMissing)

\* A run that halted at a later node whose function is missing.
C9_Witness ==
  /\ pc = "returned"
  /\ Len(execution_log) >= 2
  /\ LastEntry.status = "error"
  /\ LastEntry.message = "Error executing node"
  /\ get_node(graph, LastEntry.node).function_name = Unregistered

\* -------------------------------------------------------------------- C10
\* The current name is neither END nor empty nor a node of the graph.
Unresolvable ==
  /\ pc = "loop"
  /\ current_node_name \notin {"END", ""}
  /\ \A i \in DOMAIN graph.nodes : graph.nodes[i].name # current_node_name

ReportsNodeNotFound ==
  /\ AppendsOneError
  /\ execution_log'[Len(execution_log')].message = "Node not found in graph"
  /\ invoked' = invoked
  /\ state' = state
  /\ heap' = heap
  /\ pc' = "break"

\* C10 as stated: whenever the current name is not a node of the graph, the
\* run appends a node-not-found error entry, invokes nothing, leaves the
\* state unchanged and halts.
C10_AlwaysNodeNotFound ==
  [][(Unresolvable => ReportsNodeNotFound) /\ HaltsAfterBreak]_vars

\* C10 amended: the same, when fewer than 100 entries have been logged; with
\* 100 entries logged the entry appended is the iteration-bound error entry.
C10_NodeNotFound ==
  [][/\ (Unresolvable /\ Len(execution_log) < max_iterations)
          => ReportsNodeNotFound
     /\ (Unresolvable /\ Len(execution_log) >= max_iterations)
          => (/\ AppendsOneError
              /\ execution_log'[Len(execution_log')].message
                   = "Maximum iterations reached"
              /\ invoked' = invoked /\ state' = state /\ heap' = heap
              /\ pc' = "break")
     /\ HaltsAfterBreak]_vars

\* A run that halted on the unresolvable target of an edge.
C10_Witness ==
  /\ pc = "returned"
  /\ Len(execution_log) >= 2
  /\ LastEntry.message = "Node not found in graph"
  /\ LastEntry.node = "ghost"


\* -------------------------------------------------------------------- C11
\* The step runs the current node and records its success entry.
SuccessStep ==
  /\ pc = "loop"
  /\ Len(execution_log') = Len(execution_log) + 1
  /\ execution_log'[Len(execution_log')].status = "success"

\* The to_node of the first edge of the graph that leaves name, read off the
\* edge list.
FirstOut(name) ==
  LET from == {i \in DOMAIN graph.edges : graph.edges[i].from_node = name} IN
    IF from = {} THEN NoEdge
    ELSE graph.edges[CHOOSE i \in from : \A j \in from : i <= j].to_node

\* left <operator> right in Python, for the six operators; the ordering
\* operators are used on comparable operands only.
Satisfies(left, op, right) ==
  CASE op = "<" -> left.v < right.v
    [] op = ">" -> left.v > right.v
    [] op = "<=" -> left.v <= right.v
    [] op = ">=" -> left.v >= right.v
    [] op = "==" -> left = right
    [] op = "!=" -> left # right

\* state.get(key) on the container st in heap hp.
ValueAt(st, hp, key) == IF hp[st.data][key] = Absent THEN None ELSE hp[st.data][key]

\* The edge has one of the six operators and, for an ordering operator,
\* operands of one ordered type, read from container st in heap hp.
Evaluable(e, st, hp) ==
  /\ e.kind = "ConditionalEdge"
  /\ e.condition_operator \in {"<", ">", "<=", ">=", "==", "!="}
  /\ e.condition_operator \in {"<", ">", "<=", ">="} =>
       /\ ValueAt(st, hp, e.condition_key).t = e.condition_value.t
       /\ e.condition_value.t \in {"num", "str"}

\* The node the edge selects on container st in heap hp.
Selected(e, st, hp) ==
  IF Satisfies(ValueAt(st, hp, e.condition_key), e.condition_operator,
               e.condition_value)
    THEN e.true_node ELSE e.false_node

C11_Routes ==
  (SuccessStep /\ Evaluable(FirstOut(current_node_name), state', heap')) =>
    /\ pc' = "loop"
    /\ current_node_name' = Selected(FirstOut(current_node_name), state', heap')

\* The example of the specification, with whole numbers: n < 7 sends a state
\* with n = 5 to true_node and a state with n = 8 to false_node.
C11_Example ==
  LET e == Cond("n", "<", Num(7), "loop", "END")
      st == [data |-> 1, metadata |-> 2]
      hp(n) == <<[EmptyDict EXCEPT !["n"] = Num(n)], EmptyDict>>
  IN /\ _evaluate_conditional_edge(e, st, hp(5)) = [raised |-> "none", next |-> "loop"]
     /\ _evaluate_conditional_edge(e, st, hp(8)) = [raised |-> "none", next |-> "END"]

\* C11: after a successful node whose outgoing edge is conditional, with one
\* of the six operators and comparable operands, the next current node is
\* true_node exactly when state.get(condition_key) <operator>
\* condition_value holds on the state after the node, and false_node
\* otherwise.
C11_ConditionalBranch == [](C11_Example) /\ [][C11_Routes]_vars

\* A node has just succeeded and its "<" edge chose true_node.
C11_Witness ==
  /\ pc = "loop"
  /\ Len(execution_log) >= 1
  /\ LastEntry.status = "success"
  /\ LET e == FirstOut(LastEntry.node) IN
       /\ e.kind = "ConditionalEdge"
       /\ e.condition_operator = "<"
       /\ e.true_node # e.false_node
       /\ ValueAt(state, heap, e.condition_key).t = "num"
       /\ e.condition_value.t = "num"
       /\ ValueAt(state, heap, e.condition_key).v < e.condition_value.v
       /\ current_node_name = e.true_node

\* -------------------------------------------------------------------- C12
\* What the function of the current node does when called on the current
\* state.
ToolReturn == ToolCall(get(tools, CurrentNode.function_name), state, heap)

C12_MergeStep ==
  (SuccessStep /\ ToolReturn.kind = "dict") =>
    /\ state' = state
    /\ \A k \in Keys :
         heap'[state.data][k] =
           IF ToolReturn.dict[k] # Absent THEN ToolReturn.dict[k]
           ELSE heap[state.data][k]

\* C12: when a step function returns a plain mapping, the data after the
\* step is the data before it with every key of the mapping inserted or
\* overwritten and every other key preserved.
C12_MergeSemantics == [][C12_MergeStep]_vars

\* {a: 1, b: 2} merged with {b: 3, c: 4} gave {a: 1, b: 3, c: 4}.
C12_Witness ==
  /\ pc = "returned"
  /\ Len(execution_log) = 1
  /\ get_node(graph, LastEntry.node).function_name = "merge_bc"
  /\ heap[state.data] = [EmptyDict EXCEPT !["a"] = Num(1), !["b"] = Num(3),
                                          !["c"] = Num(4)]

\* -------------------------------------------------------------------- C13
C13_ContainerStep ==
  SuccessStep =>
    /\ ToolReturn.kind = "WorkflowState" =>
         /\ state' = ToolReturn.st
         /\ heap' = ToolReturn.heap
         /\ execution_log'[Len(execution_log')].state_snapshot
              = to_dict(ToolReturn.st)
         /\ Evaluable(FirstOut(current_node_name), ToolReturn.st, heap') =>
              current_node_name'
                = Selected(FirstOut(current_node_name), ToolReturn.st, heap')
    /\ ToolReturn.kind = "None" =>
         /\ state' = state
         /\ heap' = ToolReturn.heap

\* C13: a container returned by a step function becomes the current state:
\* the success entry, the outgoing conditional edge, the next step function
\* (called on the current state) and the returned final state use it; when
\* the function returns nothing the passed container stays current.
C13_ReturnedContainer ==
  [][C13_ContainerStep /\ (pc' = "returned" => state' = state)]_vars

\* A run returned a container that a step function created.
C13_Witness ==
  /\ pc = "returned"
  /\ state.data > 2
  /\ Len(execution_log) >= 1
  /\ LastEntry.state_snapshot = to_dict(state)
  /\ heap[state.data]["a"] = Num(2)
  /\ heap[1]["a"] # Num(2)

\* -------------------------------------------------------------------- C14
C14_EdgeStep ==
  /\ SuccessStep =>
       /\ FirstOut(current_node_name).kind = "none" =>
            (pc' = "loop" /\ current_node_name' = "END")
       /\ FirstOut(current_node_name).kind = "str" =>
            (pc' = "loop"
             /\ current_node_name' = FirstOut(current_node_name).name)
  /\ (pc = "loop" /\ current_node_name = "END") =>
       /\ pc' = "returned"
       /\ UNCHANGED <<state, heap, execution_log, step_counter, invoked>>
  /\ Len(execution_log') = Len(execution_log) + 1 =>
       execution_log'[Len(execution_log')].node = current_node_name

C14_EndsOnSuccess ==
  (pc = "returned" /\ current_node_name = "END" /\ Len(execution_log) > 0) =>
    LastEntry.status = "success"

\* C14: after a successful node without outgoing edge the current node
\* becomes END and the run ends with that node's success entry last; after a
\* successful node with a plain edge the next node visited is the edge's
\* target.
C14_EdgeResolution == [](C14_EndsOnSuccess) /\ [][C14_EdgeStep]_vars

\* A run over a plain edge that ended at a node without outgoing edge.
C14_Witness ==
  /\ pc = "returned"
  /\ current_node_name = "END"
  /\ Len(execution_log) = 2
  /\ FirstOut(execution_log[1].node).kind = "str"
  /\ FirstOut(execution_log[1].node).name = execution_log[2].node
  /\ FirstOut(execution_log[2].node).kind = "none"


\* -------------------------------------------------------------------- C15
C15_LinearRun ==
  (graph \in GraphsLinear /\ pc = "returned") =>
    /\ Len(execution_log) = Len(graph.nodes)
    /\ \A i \in DOMAIN execution_log :
         /\ execution_log[i].status = "success"
         /\ execution_log[i].node = graph.nodes[i].name
    /\ \A i \in DOMAIN graph.nodes :
         heap[state.data][SetterKeys[i]] # Absent

\* C15: on a linear graph of n distinct nodes joined by plain edges, each
\* function registered, succeeding and setting a key of its own, execute
\* returns a log of exactly n success entries naming the nodes in chain
\* order, and a final state that contains every key the n functions set.
C15_LinearGraph == (graph \in GraphsLinear => pc # "raised") /\ C15_LinearRun

\* The run of A -> B -> C from the empty initial state has returned.
C15_Witness ==
  /\ graph = Chain(3)
  /\ pc = "returned"
  /\ Len(execution_log) = 3
  /\ input = EmptyDict
  /\ \A k \in {"a", "b", "c"} : heap[state.data][k] = Num(1)


\* -------------------------------------------------------------------- C16
C16_SameOutcome ==
  (runs >= 2 /\ pc \in {"returned", "raised"}) => Outcome = first

C16_StartsAgain ==
  /\ step_counter = Len(execution_log)
  /\ \A i \in DOMAIN execution_log : execution_log[i].step = i

C16_Restart ==
  runs' = runs + 1 => (execution_log' = <<>> /\ step_counter' = 0)

\* C16: a further execution of the same graph on the same engine instance,
\* from the same initial mapping, visits the same nodes and ends with the
\* same final state and the same log as the first; it starts with an empty
\* log and numbers its entries from 1.  Checked under SpecRerun.
C16_Determinism ==
  /\ [](C16_SameOutcome /\ C16_StartsAgain)
  /\ [][C16_Restart]_vars

\* The second execution of a run of several steps has ended.
C16_Witness ==
  /\ runs = 2
  /\ pc = "returned"
  /\ Len(execution_log) >= 3
  /\ first.pc = "returned"
  /\ Len(first.log) = Len(execution_log)


\* -------------------------------------------------------------------- C17
\* The steps of Spec are the steps EngineStep makes on the engine record.
StepAgrees ==
  LET s == EngineStep([Self EXCEPT !.input = input'], heap, graph, tools)
  IN /\ Self' = s.engine
     /\ heap' = s.heap
     /\ tools' = s.registry

EngineStepIsExecute == [][StepAgrees]_vars

Finished(r) == engines[r].pc \in {"returned", "raised"}

C17_AsAlone ==
  \A r \in 1..NumRuns :
    Finished(r) =>
      OutcomeOf(engines[r], heap) = RunAlone(graph, tools, engines[r].input)

C17_NoInterference ==
  \A q \in 1..NumRuns :
    engines'[q] = engines[q] =>
      OutcomeOf(engines'[q], heap') = OutcomeOf(engines[q], heap)

\* C17: when several runs, each with its own engine, execute interleaved on
\* the same graph and registry, every finished run's final state and log are
\* what the run returns when executed alone, and a step of one run changes
\* neither the state, the step counter nor the log entries of another run.
C17_RunsIndependent ==
  /\ []C17_AsAlone
  /\ [][C17_NoInterference]_vars

\* Two runs of the looping node, started from different mappings and
\* interleaved, have both returned with different states.
C17_Witness ==
  /\ \A r \in 1..NumRuns : engines[r].pc = "returned"
  /\ Len(engines[1].execution_log) >= 2
  /\ engines[1].input # engines[2].input
  /\ OutcomeOf(engines[1], heap).state # OutcomeOf(engines[2], heap).state
  /\ engines[2].state.data < engines[1].state.data


\* -------------------------------------------------------------------- C18
C18_Frame == graph' = graph /\ tools' = tools

\* C18: an execute call leaves the graph (nodes, edges, start_node) and the
\* registry's name-to-function mapping as they were before the call, whether
\* the run ends at END, at the iteration cap or on an error.
C18_GraphAndRegistryUntouched ==
  /\ [](tools = InitialRegistry /\ graph \in Graphs)
  /\ [][C18_Frame]_vars

\* A run that invoked functions and was stopped by the iteration cap has
\* returned, with the registry as it was given.
C18_Witness ==
  /\ pc = "returned"
  /\ Len(invoked) = max_iterations
  /\ LastEntry.message = "Maximum iterations reached"
  /\ tools = InitialRegistry

\* -------------------------------------------------------------------- C19
\* The names registered at least once, and the last registration of a name.
Registered == {regs[i].name : i \in DOMAIN regs}

LastRegistration(name) ==
  LET last == CHOOSE i \in DOMAIN regs :
                /\ regs[i].name = name
                /\ \A j \in DOMAIN regs : regs[j].name = name => j <= i
  IN regs[last].func

C19_Lookups ==
  \A name \in RegistryNames :
    /\ has(tools, name) <=> name \in Registered
    /\ name \in Registered =>
         /\ ~get_call(tools, name).raised
         /\ get_call(tools, name).value = LastRegistration(name)
    /\ name \notin Registered => get_call(tools, name).raised

C19_RegisterStep ==
  regs' # regs =>
    /\ got'.op = "register" /\ ~got'.raised
    /\ \A other \in RegistryNames \ {got'.name} :
         /\ has(tools', other) <=> has(tools, other)
         /\ has(tools, other) => tools'[other] = tools[other]

C19_GetStep ==
  (regs' = regs /\ got'.op = "get") =>
    /\ tools' = tools
    /\ got'.raised <=> got'.name \notin Registered
    /\ ~got'.raised => got'.value = LastRegistration(got'.name)

\* C19: after any sequence of register calls, get(name) returns the function
\* of the most recent register for that name and has(name) is true exactly
\* for the names registered at least once; a register changes the entry of
\* no other name and does not fail on a duplicate; get on an unregistered
\* name fails and leaves the registry unchanged.
C19_Registry ==
  /\ []C19_Lookups
  /\ [][C19_RegisterStep /\ C19_GetStep]_vars

\* A name was registered twice with different functions, another name never,
\* and get has just returned the second function.
C19_Witness ==
  /\ Len(regs) = 2
  /\ regs[1].name = "t1" /\ regs[2].name = "t1"
  /\ regs[1].func = "set_a" /\ regs[2].func = "incr"
  /\ got = [op |-> "get", name |-> "t1", raised |-> FALSE, value |-> "incr"]
  /\ ~has(tools, "t2")


\* -------------------------------------------------------------------- C20
\* The saves of one kind that have returned, and their identifiers.
Saves(kind) == {s \in saved : s.kind = kind}
SavedIds(kind) == {s.id : s \in Saves(kind)}

\* A thread is inside a with block only while it holds the lock.
C20_Exclusive == \A t \in Threads : threads[t].pc # "idle" => _lock = t

\* Every save that returned is retrievable under its identifier, and nothing
\* else is stored.
C20_NothingLost ==
  /\ \A s \in Saves("graph") : DictGetOr(_graphs, s.id, NotStored) = s.value
  /\ \A s \in Saves("run") : DictGetOr(_runs, s.id, NotStored) = s.value
  /\ DOMAIN _graphs = SavedIds("graph")
  /\ DOMAIN _runs = SavedIds("run")

\* Every stored graph carries the identifier it is stored under.
C20_KeysMatch == \A gid \in DOMAIN _graphs : objects[_graphs[gid]] = gid

\* An identifier is assigned only to a graph that has none, and a save
\* returns the identifier the graph had or was given.
C20_IdKept ==
  /\ \A o \in Objects : objects'[o] # objects[o] => objects[o] = NoId
  /\ \A t \in Threads :
       (threads[t].pc = "line25" /\ threads'[t].pc = "idle") =>
         /\ threads'[t].result = objects'[threads[t].arg]
         /\ objects[threads[t].arg] # NoId

\* A lookup or a listing returns what the saves that returned before it
\* stored.
C20_ReadsAtomic ==
  \A t \in Threads :
    (threads[t].pc \in {"line31", "line48", "line53", "line58"}
     /\ threads'[t].pc = "idle") =>
      LET kind == IF threads[t].op \in {"get_graph", "list_graphs"}
                    THEN "graph" ELSE "run"
          r == threads'[t]
      IN IF threads[t].op \in {"get_graph", "get_run"}
           THEN \/ \E s \in Saves(kind) : s.id = r.id /\ s.value = r.result
                \/ r.result = NotStored /\ r.id \notin SavedIds(kind)
           ELSE r.listed = SavedIds(kind)

\* C20: under any interleaving of concurrent save_graph, save_run, get_graph,
\* get_run, list_graphs and list_runs calls each call takes effect atomically
\* (only the holder of the lock is inside a method body and a read returns
\* the saves that returned before it), no saved graph or run is lost, every
\* saved graph and run is retrievable by its identifier, and save_graph
\* assigns an identifier only to a graph that has none and keeps an existing
\* one.
C20_ThreadSafe ==
  /\ [](C20_Exclusive /\ C20_NothingLost /\ C20_KeysMatch)
  /\ [][C20_IdKept /\ C20_ReadsAtomic]_vars

\* Two threads saved the same Graph object concurrently: it was given one
\* identifier, kept by the second save, and a run saved for it is stored.
C20_Witness ==
  /\ \A t \in Threads : threads[t].pc = "idle" /\ threads[t].calls = MaxCalls
  /\ Saves("graph") = {[kind |-> "graph", id |-> 1, value |-> 1]}
  /\ objects[1] = 1
  /\ DictGetOr(_graphs, 1, NotStored) = 1
  /\ threads[1].op = "save_run" /\ threads[2].op = "save_graph"
  /\ threads[2].result = 1
  /\ DictGetOr(_runs, threads[1].id, NotStored) = 1


\* -------------------------------------------------------------------- C21
\* The value of a key in the run's state, and the visits of a node whose
\* function ran.
DataAt(key) == heap[state.data][key]
Visits(name) == Cardinality({i \in DOMAIN invoked : invoked[i] = name})

\* A step function of the run raised.
StepRaised ==
  \E i \in DOMAIN execution_log :
    execution_log[i].message = "Error executing node"

\* C21: every run of the code-review workflow in which no step function
\* raises returns at END with quality_score >= 7.0 in its final state.
C21_LoopsUntilGoodScore ==
  (pc = "returned" /\ ~StepRaised) =>
    /\ current_node_name = "END"
    /\ DataAt("quality_score").t = "num"
    /\ DataAt("quality_score").v >= 700

\* -------------------------------------------------------------------- C28
LoopNodes == {"analyze", "detect", "suggest", "score"}

C28_InputsKept ==
  (pc = "loop" /\ current_node_name \in LoopNodes) =>
    /\ state' = state
    /\ heap'[state.data]["code"] = DataAt("code")
    /\ heap'[state.data]["functions"] = DataAt("functions")

C28_ScoreConstant ==
  (pc = "loop" /\ current_node_name = "score"
   /\ DataAt("quality_score") # Absent) =>
    heap'[state.data]["quality_score"] = DataAt("quality_score")

C28_GoodFirstPass ==
  /\ DataAt("quality_score").v >= 700
  /\ Len(execution_log) = 5
  /\ \A i \in DOMAIN execution_log : execution_log[i].status = "success"
  /\ Visits("score") = 1

C28_CapAtScore ==
  /\ DataAt("quality_score").v < 700
  /\ Len(execution_log) = 101
  /\ \A i \in 1..100 : execution_log[i].status = "success"
  /\ LastEntry.status = "error"
  /\ LastEntry.node = "score"
  /\ LastEntry.message = "Maximum iterations reached"
  /\ Visits("score") = 24

C28_TwoOutcomes ==
  (pc = "returned" /\ ~StepRaised) => (C28_GoodFirstPass \/ C28_CapAtScore)

EdgesOf(name) == {i \in DOMAIN graph.edges : graph.edges[i].from_node = name}

FirstEdgeIndex(name) ==
  CHOOSE i \in EdgesOf(name) : \A j \in EdgesOf(name) : i <= j

Targets(to_node) ==
  IF to_node.kind = "str" THEN {to_node.name}
  ELSE {to_node.true_node, to_node.false_node}

FirstTargets(name) ==
  IF EdgesOf(name) = {} THEN {}
  ELSE Targets(graph.edges[FirstEdgeIndex(name)].to_node)

C22_FirstEdgeReturned ==
  \A i \in DOMAIN graph.nodes :
    LET name == graph.nodes[i].name IN
      get_next_node(graph, name) =
        IF EdgesOf(name) = {} THEN NoEdge
        ELSE graph.edges[FirstEdgeIndex(name)].to_node

C22_FirstEdgeFollowed ==
  (pc = "loop" /\ pc' = "loop" /\ execution_log' # execution_log) =>
    current_node_name' \in FirstTargets(current_node_name) \cup {"END"}

\* C22: get_next_node returns the to_node of the first edge, in list order,
\* that leaves the given node; when the graph holds several edges from a
\* node, a run follows the first one only.
C22_FirstEdgeWins ==
  /\ []C22_FirstEdgeReturned
  /\ [][C22_FirstEdgeFollowed]_vars
  /\ [](graph \in GraphsTwoEdges =>
          \A i \in DOMAIN invoked :
            invoked[i] \in {"A"} \cup FirstTargets("A"))

\* On a graph with the edges A -> B and, later in the list, A -> C, the run
\* went from A to B and ended without visiting C.
C22_Witness ==
  /\ graph \in GraphsTwoEdges
  /\ graph.edges[1].to_node = Plain("B")
  /\ graph.edges[3].to_node = Plain("C")
  /\ pc = "returned"
  /\ invoked = <<"A", "B">>


\* -------------------------------------------------------------------- C23
\* The entries recorded so far stay where they are, with their step, node
\* and status.
C23_EntriesKept ==
  /\ Len(execution_log') >= Len(execution_log)
  /\ \A i \in DOMAIN execution_log :
       /\ execution_log'[i].step = execution_log[i].step
       /\ execution_log'[i].node = execution_log[i].node
       /\ execution_log'[i].status = execution_log[i].status

\* A pass of the loop body appends one entry that names the current node,
\* a success entry or the error entry after which the loop is left.
C23_OnePerVisit ==
  IF pc = "loop" /\ LoopCond(current_node_name)
    THEN /\ Len(execution_log') = Len(execution_log) + 1
         /\ LET new == execution_log'[Len(execution_log')] IN
              /\ new.node = current_node_name
              /\ new.status \in {"success", "error"}
              /\ new.status = "error" => pc' = "break"
    ELSE execution_log' = execution_log

\* C23: within one execute call the log is append-only and grows by exactly
\* one entry per node visit: each loop iteration appends one entry naming
\* the current node, and no entry is removed, reordered or changed in its
\* step, node or status afterwards.
C23_AppendOnly == [][C23_EntriesKept /\ C23_OnePerVisit]_vars

\* A run of several visits ended on an error entry that follows the success
\* entries recorded before it.
C23_Witness ==
  /\ pc = "returned"
  /\ Len(execution_log) >= 3
  /\ LastEntry.status = "error"
  /\ \A i \in 1..(Len(execution_log) - 1) :
       execution_log[i].status = "success"
  /\ Len(invoked) = Len(execution_log) - 1


\* -------------------------------------------------------------------- C24
\* The functions that ran in this call, and the metadata a reader sees in
\* the state and in the snapshot of entry i.
InvokedFunctions ==
  {FirstNode(graph.nodes, invoked[i], 1).function_name : i \in DOMAIN invoked}

Metadata == heap[state.metadata]
SnapshotMetadata(i) == heap[execution_log[i].state_snapshot.metadata]

C24_StartsEmpty == (pc = "idle" /\ pc' = "loop") => heap'[state'.metadata] = EmptyDict

C24_Unwritten ==
  (pc # "idle" /\ InvokedFunctions \cap MetaWriters = {}) =>
    /\ Metadata = EmptyDict
    /\ \A i \in DOMAIN execution_log : SnapshotMetadata(i) = EmptyDict

\* The step in which a returned mapping is merged.
C24_MergeStep ==
  (pc = "loop" /\ LoopCond(current_node_name)
   /\ step_counter < max_iterations
   /\ FirstNode(graph.nodes, current_node_name, 1).function_name = "merge_bc") =>
    /\ state'.metadata = state.metadata
    /\ heap'[state.metadata] = Metadata
    /\ heap'[state.data] = DictUpdate(heap[state.data],
                                      [EmptyDict EXCEPT !["b"] = Num(3),
                                                        !["c"] = Num(4)])

\* C24: the engine never writes the state's metadata: a run starts with
\* empty metadata; unless a step function changes it, the metadata in every
\* log snapshot and in the final state is as at the start; merging a
\* returned mapping changes only data.
C24_MetadataUntouched ==
  /\ []C24_Unwritten
  /\ [][C24_StartsEmpty /\ C24_MergeStep]_vars

\* A function wrote the metadata, then a returned mapping was merged: the
\* metadata is as the function left it and the data holds the merged keys.
C24_Witness ==
  /\ pc = "returned"
  /\ invoked = <<"A", "B">>
  /\ graph.nodes[1].function_name = "tag"
  /\ graph.nodes[2].function_name = "merge_bc"
  /\ Metadata = [EmptyDict EXCEPT !["m"] = Num(1)]
  /\ heap[state.data]["b"] = Num(3)


\* -------------------------------------------------------------------- C25
C25_ErrorIsLast ==
  /\ \A i \in DOMAIN execution_log :
       execution_log[i].status \in {"success", "error"}
  /\ \A i \in DOMAIN execution_log :
       i < Len(execution_log) => execution_log[i].status = "success"

C25_NothingAfterError ==
  (\E i \in DOMAIN execution_log : execution_log[i].status = "error") =>
    /\ invoked' = invoked
    /\ execution_log' = execution_log
    /\ heap' = heap

\* C25: in every log of execute an error entry can only be the last entry:
\* every entry is success or error, at most one is an error, every entry
\* before the last is success, and once an error entry is recorded no step
\* function is invoked.
C25_SingleTrailingError ==
  /\ []C25_ErrorIsLast
  /\ [][C25_NothingAfterError]_vars

\* A run ended on the error entry of a function that raised at the second
\* node, after the success entry of the first.
C25_Witness ==
  /\ pc = "returned"
  /\ Len(execution_log) = 2
  /\ execution_log[1].status = "success"
  /\ execution_log[2].status = "error"
  /\ execution_log[2].message = "Error executing node"
  /\ invoked = <<"A", "B">>


\* -------------------------------------------------------------------- C26
\* The state a reader sees once the function of the current node has run on
\* the current state.
PostNode ==
  CASE ToolReturn.kind = "WorkflowState" ->
         Deref(to_dict(ToolReturn.st), ToolReturn.heap)
    [] ToolReturn.kind = "dict" ->
         [data |-> DictUpdate(ToolReturn.heap[state.data], ToolReturn.dict),
          metadata |-> ToolReturn.heap[state.metadata]]
    [] OTHER -> Deref(to_dict(state), ToolReturn.heap)

C26_FinalIsLastSnapshot ==
  (pc = "returned" /\ execution_log # <<>>) =>
    /\ LastEntry.state_snapshot = to_dict(state)
    /\ Deref(LastEntry.state_snapshot, heap) = Deref(to_dict(state), heap)

C26_PostNodeSnapshot ==
  SuccessStep =>
    LET new == execution_log'[Len(execution_log')] IN
      /\ Deref(new.state_snapshot, heap') = PostNode
      /\ new.state_snapshot = to_dict(state')

\* C26: whenever execute returns with a non-empty log, the data and metadata
\* of the returned state equal the state_snapshot of the last log entry, and
\* the snapshot recorded with a success entry is the state after the node's
\* function ran, not the state before it.
C26_SnapshotIsPostNode ==
  /\ []C26_FinalIsLastSnapshot
  /\ [][C26_PostNodeSnapshot]_vars

\* A run whose function returned a new container has returned: the last
\* snapshot is that container, which differs from the one the run began
\* with.
C26_Witness ==
  /\ pc = "returned"
  /\ execution_log # <<>>
  /\ LastEntry.status = "success"
  /\ state.data # 1
  /\ LastEntry.state_snapshot = to_dict(state)
  /\ heap[state.data] # heap[1]


\* -------------------------------------------------------------------- C27
\* The names that end the loop.
Ending == {"END", ""}

C27_NeverDispatched ==
  /\ \A i \in DOMAIN execution_log : execution_log[i].node \notin Ending
  /\ \A i \in DOMAIN invoked : invoked[i] \notin Ending

C27_StopsSilently ==
  (pc = "loop" /\ current_node_name \in Ending) =>
    /\ pc' = "returned"
    /\ UNCHANGED <<state, heap, execution_log, step_counter, invoked,
                   current_node_name>>

C27_NoErrorIffEnded ==
  pc = "returned" =>
    ((\A i \in DOMAIN execution_log : execution_log[i].status # "error")
       <=> current_node_name \in Ending)

C27_StartAtEnd ==
  (pc = "returned" /\ graph.start_node \in Ending) =>
    /\ execution_log = <<>>
    /\ Deref(to_dict(state), heap) = [data |-> input, metadata |-> EmptyDict]

\* C27: the name END and the empty name are never dispatched: the loop stops
\* on them without a log entry and without touching state or graph, also
\* when the graph holds a node named END; execute returns a log without an
\* error entry exactly when the current name became END or empty, and a graph
\* whose start_node is END returns an empty log and the initial state.
C27_EndNeverDispatched ==
  /\ [](C27_NeverDispatched /\ C27_NoErrorIffEnded /\ C27_StartAtEnd)
  /\ [][C27_StopsSilently]_vars

\* On a graph that holds a node named END, the run went from A to END and
\* returned after A's entry only.
C27_Witness ==
  /\ graph \in GraphsEndNode
  /\ graph.start_node = "A"
  /\ pc = "returned"
  /\ current_node_name = "END"
  /\ invoked = <<"A">>
  /\ Len(execution_log) = 1
  /\ heap[state.data]["b"] = input["b"]


\* -------------------------------------------------------------------- C29
\* The step in which run_graph answers for a call of execute that returned.
C29_Reported ==
  (response.kind = "none" /\ response'.kind = "run") =>
    /\ pc = "returned"
    /\ response'.status = "completed"
    /\ response'.run_id \in DOMAIN _runs'
    /\ response'.run_id \notin DOMAIN _runs
    /\ _runs'[response'.run_id].status = "completed"

\* Every call that returned and was answered is stored, and get_state on a
\* stored run reports the status, state and log execute returned.
C29_Stored ==
  /\ \A run_id \in DOMAIN _runs :
       /\ pc = "returned"
       /\ _runs[run_id].status = "completed"
       /\ _runs[run_id].state = state
       /\ _runs[run_id].execution_log = execution_log
  /\ (response.kind = "state" /\ response.code = 200) =>
       /\ response.status = "completed"
       /\ response.state = Outcome.state
       /\ response.execution_log = Outcome.log
  /\ response.kind = "run" =>
       /\ response.code = 200
       /\ response.status = "completed"
       /\ response.state = Outcome.state
       /\ response.execution_log = Outcome.log
       /\ response.run_id \in DOMAIN _runs
  /\ (pc = "returned" /\ response.kind # "none") => _runs # <<>>
  /\ pc = "raised" => _runs = <<>>

\* C29: for every run for which execute returns, run_graph stores the run
\* and reports it with status "completed", also when its log ends with an
\* error entry; get_state later returns that status, state and log for the
\* run's identifier.
C29_AlwaysCompleted ==
  /\ []C29_Stored
  /\ [][C29_Reported]_vars

\* get_state answered for a run that was stopped by a function that raised:
\* status completed, the log ending with the error entry.
C29_Witness ==
  /\ response.kind = "state"
  /\ response.code = 200
  /\ response.status = "completed"
  /\ response.execution_log # <<>>
  /\ response.execution_log[Len(response.execution_log)].status = "error"
  /\ response.execution_log[Len(response.execution_log)].message
       = "Error executing node"
  /\ response.run_id \in DOMAIN _runs

====
